---------------------------- MODULE Spec2Model ----------------------------
(***************************************************************************)
(* Model of the ClinicalRxQ member hub client stores:                      *)
(*   - the Resource Bookmark Store  (src/unnamed/part_002, lines 302-392)  *)
(*   - the Auth Store               (src/src/stores/authStore.ts and the   *)
(*                                   copy in src/unnamed/part_002, 1-168)  *)
(*   - the Profile Store            (src/unnamed/part_002, lines 169-301)  *)
(*   - the Login and Account pages  (src/src/pages/Login.tsx,              *)
(*                                   src/unnamed/part_000)                 *)
(*   - the Profile Dashboard Service, in its two schema revisions          *)
(*     (src/src/services/profileDashboardService.ts, 1-325 and 326-685)    *)
(* Every remote call is asynchronous: an operation that awaits one is      *)
(* split at the await into a start step and a resolve step, and other      *)
(* steps may run in between.  The remote tables and the auth provider are  *)
(* the environment.                                                        *)
(***************************************************************************)
EXTENDS Integers, Sequences, FiniteSets, TLC

(***************************************************************************)
(* Bounds of the model.                                                    *)
(***************************************************************************)
\* toggleBookmark calls that may be awaiting their remote call at once
MaxPendingToggles == 2
\* auth change events that carry a session, per run
MaxEvents == 2

\* Profiles whose bookmarks can be loaded, and the one that is acting (the UI
\* passes the current profile's id to toggleBookmark).
BmProfiles == {"pA", "pB"}
TogglingProfiles == {"pA"}
\* Rows the bookmarks table holds from earlier sessions.
EarlierBookmarks == {<<"pB", "b.pdf">>}
Paths == {"a.pdf", "b.pdf"}

VARIABLES
    \* ---- Resource Bookmark Store (part_002:325-392)
    bookmarkedPaths,   \* the local Set<string> of bookmarked resource paths
    bmLoading,         \* the store's loading flag
    bookmarksTbl,      \* remote table bookmarks: set of <<profile_id, resource_id>>
    bmToggles,         \* toggleBookmark calls suspended at their await
    bmLoads,           \* profiles with a loadBookmarks call suspended at its await
    bmLast,            \* the bookmark-store step taken last, with what it saw
    \* ---- Auth provider and remote tables (the environment)
    provSession,       \* the provider's session: the user id, or NoSession
    accountsTbl,       \* remote table accounts: a set of rows
    profilesTbl,       \* remote table member_profiles: a set of rows
    \* ---- Auth Store (authStore.ts:48-141, part_002:50-168)
    revision,          \* which of the two copies of the Auth Store is built
    auth,              \* session, user, account, isAuthenticated, isInitialized
    handlers,          \* onAuthStateChange handler runs suspended at an await
    logoutPending,     \* logout() is awaiting the provider's signOut
    nEvents,           \* session-carrying change events delivered so far
    lastEvent,         \* the session of the change event delivered last
    \* ---- Profile Store (part_002:240-301)
    currentProfile,    \* the selected MemberProfile, or Null
    profiles,          \* the roster, a sequence of MemberProfile
    sessionCache,      \* sessionStorage item crxq_current_profile, or NoItem
    loads,             \* loadProfilesAndSetDefault calls suspended at their fetch
    last,              \* the auth/profile step taken last, with what it saw
    \* ---- checkSession, login and updateAccount of the Auth Store; Login page
    checkSessionPc,    \* where the App's checkSession() call is: idle/pending/done
    loginPage,         \* the Login page: its error and loading state, its route
    acctUpdates,       \* updateAccount calls suspended at one of their awaits
    acctLast,          \* the step of these operations taken last
    \* ---- Profile Dashboard Service (profileDashboardService.ts)
    svcRevision,       \* which of the two schema revisions of the service runs
    activityTbl,       \* remote table recent_activity: a set of rows
    progressTbl,       \* remote table member_training_progress: a set of rows
    svcCalls,          \* service calls suspended at an await
    svcLast,           \* the service step taken last, with what it wrote and returned
    now,               \* the clock that new Date() reads
    \* ---- pages: add-profile form, Account page, Dashboard; refreshCurrentProfile
    profileInserts,    \* member_profiles writes the add-profile form awaits
    formLast,          \* the submission of the add-profile form handled last
    refreshes,         \* refreshCurrentProfile calls suspended at their fetch
    deletes,           \* handleDelete runs of the Account page, suspended
    dashboard,         \* the Dashboard's state: what it displays, for whom
    dashLoads,         \* loadDashboardData runs suspended at their Promise.all
    profileLoads,      \* loadProfiles calls suspended at their fetch
    profileLoading     \* the Profile Store's loading flag

bmVars == <<bookmarkedPaths, bmLoading, bookmarksTbl, bmToggles, bmLoads, bmLast>>

envVars == <<provSession, accountsTbl, profilesTbl>>

authVars == <<revision, auth, handlers, logoutPending, nEvents, lastEvent>>

profileVars == <<currentProfile, profiles, sessionCache, loads>>

acctVars == <<checkSessionPc, loginPage, acctUpdates, acctLast>>

svcVars == <<svcRevision, activityTbl, progressTbl, svcCalls, svcLast, now>>

uiVars == <<profileInserts, formLast, refreshes, deletes, dashboard, dashLoads,
            profileLoads, profileLoading>>

vars == <<bookmarkedPaths, bmLoading, bookmarksTbl, bmToggles, bmLoads, bmLast,
          provSession, accountsTbl, profilesTbl,
          revision, auth, handlers, logoutPending, nEvents, lastEvent,
          currentProfile, profiles, sessionCache, loads, last,
          checkSessionPc, loginPage, acctUpdates, acctLast,
          svcRevision, activityTbl, progressTbl, svcCalls, svcLast, now,
          profileInserts, formLast, refreshes, deletes, dashboard, dashLoads,
          profileLoads, profileLoading>>

(***************************************************************************)
(* Resource Bookmark Store                                                 *)
(***************************************************************************)

\* isBookmarked: a lookup in the local set
IsBookmarked(paths, resourcePath) == resourcePath \in paths

\* The remote operation toggleBookmark issues for the membership it saw.
RemoteOpFor(wasBookmarked) == IF wasBookmarked THEN "delete" ELSE "insert"

\* newPaths: a copy of the set read at the start of the call, with the path
\* deleted (it was bookmarked) or added (it was not).
ToggledPathsMut(snapshot, path, wasBookmarked) ==
    IF wasBookmarked THEN snapshot ELSE snapshot \cup {path}
ToggledPaths(snapshot, path, wasBookmarked) ==
    IF wasBookmarked THEN snapshot \ {path} ELSE snapshot \cup {path}

\* How an awaited remote call of the store can end:
\*   "ok"    the table was changed, the result carries no error
\*   "error" the call resolved with a result whose error field is set
\*   "throw" the awaited promise rejected
RemoteOutcomes == {"ok", "error", "throw"}

\* The local set after the await of toggleBookmark.  Only a rejected promise
\* reaches the catch block; the resolved result is never inspected, so a
\* result carrying an error is followed by the same local update as success.
ToggleLocalAfter(outcome, current, snapshot, path) ==
    IF outcome = "throw"
    THEN current
    ELSE ToggledPaths(snapshot, path, IsBookmarked(snapshot, path))

\* What the caller of toggleBookmark sees.
ToggleResult(outcome) == IF outcome = "throw" THEN "rejected" ELSE "resolved"

\* The bookmarks table after the remote operation.
RemoteAfter(tbl, op, profileId, path, outcome) ==
    IF outcome # "ok" THEN tbl
    ELSE IF op = "delete" THEN tbl \ {<<profileId, path>>}
    ELSE tbl \cup {<<profileId, path>>}

\* select('resource_id').eq('profile_id', profileId), mapped into a Set
FetchedPaths(tbl, profileId) == {r[2] : r \in {x \in tbl : x[1] = profileId}}

\* The local set after loadBookmarks' fetch: replaced by the fetched set, or
\* left alone when the fetch reported an error (caught and logged).
LoadedPathsMut(ok, current, fetched) == IF ok THEN current \cup fetched ELSE current
LoadedPaths(ok, current, fetched) == IF ok THEN fetched ELSE current

\* The record of the step taken last: for a toggle, atCall is the set the call
\* read when it started; for a load, the set the fetch result replaced.
BmNoStep ==
    [op |-> "none", profileId |-> "", path |-> "", atCall |-> {},
     outcome |-> "", remoteOp |-> "", result |-> ""]

BmInit ==
    /\ bookmarkedPaths = {}
    /\ bmLoading = FALSE
    /\ bookmarksTbl = EarlierBookmarks
    /\ bmToggles = {}
    /\ bmLoads = {}
    /\ bmLast = BmNoStep

\* toggleBookmark up to its await: reads the set, issues the remote call.
ToggleBookmarkStart(profileId, path) ==
    /\ Cardinality(bmToggles) < MaxPendingToggles
    /\ [profileId |-> profileId, path |-> path, snapshot |-> bookmarkedPaths]
          \notin bmToggles
    /\ bmToggles' = bmToggles \cup
          {[profileId |-> profileId, path |-> path, snapshot |-> bookmarkedPaths]}
    /\ bmLast' = [BmNoStep EXCEPT !.op = "toggleStart"]
    /\ UNCHANGED <<bookmarkedPaths, bmLoading, bookmarksTbl, bmLoads>>
    /\ UNCHANGED <<envVars, authVars, profileVars, last, acctVars, svcVars, uiVars>>

\* toggleBookmark from its await on: the remote call ended with `outcome`.
ToggleBookmarkResolve(t, outcome) ==
    LET was == IsBookmarked(t.snapshot, t.path)
        op  == RemoteOpFor(was)
    IN  /\ t \in bmToggles
        /\ bmToggles' = bmToggles \ {t}
        /\ bookmarksTbl' = RemoteAfter(bookmarksTbl, op, t.profileId, t.path, outcome)
        /\ bookmarkedPaths' =
              ToggleLocalAfter(outcome, bookmarkedPaths, t.snapshot, t.path)
        /\ bmLast' = [BmNoStep EXCEPT !.op = "toggle",
                         !.path = t.path, !.atCall = t.snapshot,
                         !.outcome = outcome,
                         !.remoteOp = op, !.result = ToggleResult(outcome)]
        /\ UNCHANGED <<bmLoading, bmLoads>>
        /\ UNCHANGED <<envVars, authVars, profileVars, last, acctVars, svcVars, uiVars>>

\* loadBookmarks up to its await
LoadBookmarksStart(profileId) ==
    /\ profileId \notin bmLoads
    /\ bmLoads' = bmLoads \cup {profileId}
    /\ bmLoading' = TRUE
    /\ bmLast' = [BmNoStep EXCEPT !.op = "loadStart"]
    /\ UNCHANGED <<bookmarkedPaths, bookmarksTbl, bmToggles>>
    /\ UNCHANGED <<envVars, authVars, profileVars, last, acctVars, svcVars, uiVars>>

\* loadBookmarks from its await on: the fetch returned rows (ok) or an error.
LoadBookmarksResolve(profileId, ok) ==
    LET fetched == IF ok THEN FetchedPaths(bookmarksTbl, profileId) ELSE {}
    IN  /\ profileId \in bmLoads
        /\ bmLoads' = bmLoads \ {profileId}
        /\ bookmarkedPaths' = LoadedPaths(ok, bookmarkedPaths, fetched)
        /\ bmLoading' = FALSE
        /\ bmLast' = [BmNoStep EXCEPT !.op = "load", !.profileId = profileId,
                         !.atCall = bookmarkedPaths,
                         !.outcome = IF ok THEN "ok" ELSE "error",
                         !.result = "resolved"]
        /\ UNCHANGED <<bookmarksTbl, bmToggles>>
        /\ UNCHANGED <<envVars, authVars, profileVars, last, acctVars, svcVars, uiVars>>

ClearBookmarks ==
    /\ bookmarkedPaths' = {}
    /\ bmLast' = [BmNoStep EXCEPT !.op = "clear"]
    /\ UNCHANGED <<bmLoading, bookmarksTbl, bmToggles, bmLoads>>
    /\ UNCHANGED <<envVars, authVars, profileVars, last, acctVars, svcVars, uiVars>>

BmNext ==
    \/ \E p \in TogglingProfiles, r \in Paths : ToggleBookmarkStart(p, r)
    \/ \E t \in bmToggles, o \in RemoteOutcomes : ToggleBookmarkResolve(t, o)
    \/ \E p \in BmProfiles : LoadBookmarksStart(p)
    \/ \E p \in BmProfiles, ok \in BOOLEAN : LoadBookmarksResolve(p, ok)
    \/ ClearBookmarks


(***************************************************************************)
(* Claims about the Resource Bookmark Store, under SpecBookmark            *)
(***************************************************************************)

\* C4: when the remote insert or delete of toggleBookmark fails (a result
\* carrying an error, or a rejected promise), the step leaves the local set
\* as it was and the caller sees a rejected operation.
C4_FailedToggleLeavesSetAlone ==
    [][(bmLast'.op = "toggle" /\ bmLast'.outcome # "ok")
          => (bookmarkedPaths' = bookmarkedPaths /\ bmLast'.result = "rejected")]_vars

\* C5: after toggleBookmark resolves, isBookmarked(path) is the negation of
\* what it was when the call started, the remote operation was delete if the
\* path was in the set then and insert if not, and every other path's
\* membership is what it was when the call started.
C5_ResolvedToggleNegates ==
    (bmLast.op = "toggle" /\ bmLast.result = "resolved") =>
        /\ (bmLast.path \in bookmarkedPaths) # (bmLast.path \in bmLast.atCall)
        /\ bmLast.remoteOp =
              (IF bmLast.path \in bmLast.atCall THEN "delete" ELSE "insert")
        /\ \A q \in Paths \ {bmLast.path} :
              (q \in bookmarkedPaths) <=> (q \in bmLast.atCall)

\* a delete toggle has resolved with success while another path was bookmarked
C5_Witness ==
    /\ bmLast.op = "toggle"
    /\ bmLast.outcome = "ok"
    /\ bmLast.result = "resolved"
    /\ bmLast.path \in bmLast.atCall
    /\ bmLast.atCall \ {bmLast.path} # {}

\* C6: after loadBookmarks(profileId) has fetched, isBookmarked(p) holds exactly
\* for the paths of the profile's rows in the bookmarks table; what the local
\* set held before is replaced, not merged.
C6_LoadReplacesWholesale ==
    (bmLast.op = "load" /\ bmLast.outcome = "ok") =>
        \A p \in Paths :
            IsBookmarked(bookmarkedPaths, p)
               <=> (<<bmLast.profileId, p>> \in bookmarksTbl)

\* a load has replaced a set that held a path the fetched set does not hold
C6_Witness ==
    /\ bmLast.op = "load"
    /\ bmLast.outcome = "ok"
    /\ bookmarkedPaths # {}
    /\ bmLast.atCall \ bookmarkedPaths # {}

\* C27: when two toggleBookmark calls for different resources overlap and both
\* remote calls succeed, the local set reflects both toggles: the call that
\* resolves second leaves the resource of the call that resolved first as
\* that call set it.
C27_OverlappingTogglesBothKept ==
    [][\A t \in bmToggles :
          (/\ bmLast.op = "toggle"
           /\ bmLast.outcome = "ok"
           /\ bmLast.path # t.path
           /\ t \notin bmToggles'
           /\ bmLast'.op = "toggle"
           /\ bmLast'.outcome = "ok")
              => ((bmLast.path \in bookmarkedPaths') <=>
                     (bmLast.path \in bookmarkedPaths))]_vars

(***************************************************************************)
(* Environment: the auth provider and the remote tables                    *)
(***************************************************************************)

Users == {"u1", "u2"}
NoSession == "none"

\* null, for a field that holds an object or null
Null == [null |-> TRUE]

\* null and undefined, for a field that holds a string, a number or a flag
NullValue == "null"
Undefined == "undefined"

\* The accounts table: u1 has a row, u2 (a valid auth identity) has none, and
\* u3 is the account of another pharmacy.
AccountRows ==
    {[id |-> "u1", email |-> "main@rx.test", pharmacy_name |-> "Main St Pharmacy",
      pharmacy_phone |-> "555-0100", subscription_status |-> "active",
      created_at |-> "2024-01-01", updated_at |-> NullValue,
      address1 |-> "1 Main St", city |-> "Little Rock", state |-> "AR",
      zipcode |-> "72201"],
     [id |-> "u3", email |-> "other@rx.test", pharmacy_name |-> "Other Pharmacy",
      pharmacy_phone |-> NullValue, subscription_status |-> NullValue,
      created_at |-> "2024-01-01", updated_at |-> NullValue,
      address1 |-> NullValue, city |-> NullValue, state |-> NullValue,
      zipcode |-> NullValue]}

\* The member_profiles rows of account u1.  Bob's row was created first.
ProfileRows ==
    {[id |-> "pA", member_account_id |-> "u1", first_name |-> "Alice",
      created_at |-> "2024-02-01", is_active |-> TRUE],
     [id |-> "pB", member_account_id |-> "u1", first_name |-> "Bob",
      created_at |-> "2024-01-01", is_active |-> TRUE]}

\* The position of an ISO timestamp in time order (the database compares
\* created_at values; the model's two timestamps are ranked here).
TimeRank(ts) == IF ts = "2024-01-01" THEN 1 ELSE 2

(***************************************************************************)
(* Auth Store                                                              *)
(***************************************************************************)

Revisions == {"authStore.ts", "part_002"}

\* v ?? null
OrNull(v) == IF v \in {NullValue, Undefined} THEN NullValue ELSE v

\* v || d, for a string v
OrElse(v, d) == IF v \in {NullValue, Undefined, ""} THEN d ELSE v

\* mapRowToAccount
MapRowToAccount(row) ==
    [id |-> row.id, email |-> row.email, pharmacyName |-> row.pharmacy_name,
     pharmacyPhone |-> OrNull(row.pharmacy_phone),
     subscriptionStatus |-> OrElse(row.subscription_status, "inactive"),
     createdAt |-> row.created_at, updatedAt |-> OrNull(row.updated_at),
     address1 |-> OrNull(row.address1), city |-> OrNull(row.city),
     state |-> OrNull(row.state), zipcode |-> OrNull(row.zipcode)]

\* The initial state of the store.
AuthInitialState ==
    [session |-> NoSession, user |-> NoSession, account |-> Null,
     isAuthenticated |-> FALSE, isInitialized |-> FALSE]

\* set({session: null, user: null, account: null, isAuthenticated: false,
\*      isInitialized: true})
LoggedOutState ==
    [session |-> NoSession, user |-> NoSession, account |-> Null,
     isAuthenticated |-> FALSE, isInitialized |-> TRUE]

\* set({session, user: session.user, account: mapRowToAccount(accountRow),
\*      isAuthenticated: true, isInitialized: true})
AccountFoundStateMut(sess, accountRow) ==
    [session |-> sess, user |-> sess, account |-> Null,
     isAuthenticated |-> TRUE, isInitialized |-> TRUE]
AccountFoundState(sess, accountRow) ==
    [session |-> sess, user |-> sess, account |-> MapRowToAccount(accountRow),
     isAuthenticated |-> TRUE, isInitialized |-> TRUE]

\* from('accounts').select('*').eq('id', id).single(): the rows found.  A
\* fetch that reports an error yields data = null, as no row does.
AccountFetch(tbl, id, ok) == IF ok THEN {r \in tbl : r.id = id} ELSE {}

(***************************************************************************)
(* Profile Store                                                           *)
(***************************************************************************)

NoItem == <<>>

\* The keys of a MemberProfile object, in the order mapRowToProfile writes them.
ProfileKeys == <<"id", "accountId", "firstName", "createdAt">>

\* mapRowToProfile
MapRowToProfile(row) ==
    [id |-> row.id, accountId |-> row.member_account_id,
     firstName |-> row.first_name, createdAt |-> row.created_at]

\* JSON.stringify of a profile object: the key/value pairs in key order; a
\* key whose value is undefined is left out.
JSONStringifyMut(obj) == << <<"id", obj.id>> >>
JSONStringify(obj) ==
    LET pairs == [i \in 1..Len(ProfileKeys) |-> <<ProfileKeys[i], obj[ProfileKeys[i]]>>]
    IN  SelectSeq(pairs, LAMBDA kv : kv[2] # Undefined)

\* JSON.parse of such a text; reading a key the text does not hold gives
\* undefined.
JSONField(text, key) ==
    LET hits == SelectSeq(text, LAMBDA kv : kv[1] = key)
    IN  IF Len(hits) = 0 THEN Undefined ELSE hits[Len(hits)][2]
JSONParse(text) ==
    [id |-> JSONField(text, "id"), accountId |-> JSONField(text, "accountId"),
     firstName |-> JSONField(text, "firstName"),
     createdAt |-> JSONField(text, "createdAt")]

\* saveCurrentProfile: the storage item afterwards.  Session storage is taken
\* to honour its contract; the catch blocks of the two helpers run only when
\* the storage object itself raises.
SaveCurrentProfileMut(profile, item) == item
SaveCurrentProfile(profile, item) ==
    IF profile # Null THEN JSONStringify(profile) ELSE NoItem

\* loadCurrentProfile
LoadCurrentProfile(item) == IF item # NoItem THEN JSONParse(item) ELSE Null

\* setCurrentProfile's set({currentProfile: profile})
SelectedAfterSetMut(profile) == currentProfile
SelectedAfterSet(profile) == profile

\* clearProfile: saveCurrentProfile(null), set({currentProfile: null, profiles: []})
ClearedItemMut(item) == item
ClearedItem(item) == SaveCurrentProfile(Null, item)

\* The active rows of an account ordered by created_at ascending, as the
\* query .eq('member_account_id', id).eq('is_active', true).order('created_at')
\* returns them.
RECURSIVE SortByCreatedAt(_)
SortByCreatedAt(rows) ==
    IF rows = {} THEN <<>>
    ELSE LET first == CHOOSE r \in rows :
                        \A q \in rows : TimeRank(r.created_at) <= TimeRank(q.created_at)
         IN  <<first>> \o SortByCreatedAt(rows \ {first})

ActiveProfilesQuery(tbl, accountId) ==
    SortByCreatedAt({r \in tbl : r.member_account_id = accountId /\ r.is_active})

\* [ rows.map(mapRowToProfile) ]
MapRows(rows) == [i \in 1..Len(rows) |-> MapRowToProfile(rows[i])]

RosterIds(roster) == {roster[i].id : i \in 1..Len(roster)}

\* loadProfilesAndSetDefault, after its fetch: the selection.  The store under
\* src/ does not define this operation (its loadProfiles, part_002:250-274,
\* replaces the roster and selects nothing); it is modelled from the
\* specification: keep the selection if its id is in the fresh roster, else
\* select the first of the roster, or nothing when the roster is empty.
DefaultSelection(selected, roster) ==
    IF selected # Null /\ selected.id \in RosterIds(roster) THEN selected
    ELSE IF Len(roster) > 0 THEN roster[1]
    ELSE Null

NoStep ==
    [op |-> "none", sess |-> NoSession, n |-> 0, by |-> "",
     profile |-> Null, after |-> "", ok |-> TRUE]

AuthProfileInit ==
    /\ provSession = NoSession
    /\ accountsTbl = AccountRows
    /\ profilesTbl = ProfileRows
    /\ revision \in Revisions
    /\ auth = AuthInitialState
    /\ handlers = {}
    /\ logoutPending = FALSE
    /\ nEvents = 0
    /\ lastEvent = NoSession
    /\ currentProfile = LoadCurrentProfile(NoItem)
    /\ profiles = <<>>
    /\ sessionCache = NoItem
    /\ loads = {}
    /\ last = NoStep

\* clearProfile
ClearProfile ==
    /\ sessionCache' = ClearedItem(sessionCache)
    /\ currentProfile' = Null
    /\ profiles' = <<>>

\* The handler's branch for a change event without a session; it has no
\* await and runs to its end when the provider delivers the event.
NoSessionBranch ==
    /\ auth' = LoggedOutState
    /\ ClearProfile
    /\ lastEvent' = NoSession

\* The handler's start for a change event with a session: it issues the
\* accounts fetch and suspends.
SessionBranchStart(sess) ==
    /\ nEvents < MaxEvents
    /\ nEvents' = nEvents + 1
    /\ lastEvent' = sess
    /\ handlers' = handlers \cup
          {[ev |-> nEvents + 1, sess |-> sess, pc |-> "fetch", signOuts |-> 0]}

\* login(email, password) accepted by the provider: the session is
\* established and the change event reaches the handler.
Login(u) ==
    /\ provSession' = u
    /\ SessionBranchStart(u)
    /\ last' = [NoStep EXCEPT !.op = "login", !.sess = u]
    /\ UNCHANGED <<accountsTbl, profilesTbl, revision, auth, logoutPending>>
    /\ UNCHANGED <<profileVars, bmVars, acctVars, svcVars, uiVars>>

\* The provider re-announces its session (initial session, token refresh).
ProviderSessionEvent ==
    /\ provSession # NoSession
    /\ SessionBranchStart(provSession)
    /\ last' = [NoStep EXCEPT !.op = "sessionEvent", !.sess = provSession]
    /\ UNCHANGED <<envVars, revision, auth, logoutPending>>
    /\ UNCHANGED <<profileVars, bmVars, acctVars, svcVars, uiVars>>

\* The provider announces that there is no session (initial session absent).
ProviderNoSessionEvent ==
    /\ provSession = NoSession
    /\ NoSessionBranch
    /\ last' = [NoStep EXCEPT !.op = "noSessionHandled", !.by = "provider",
                   !.profile = currentProfile]
    /\ UNCHANGED <<envVars, revision, handlers, logoutPending, nEvents, loads>>
    /\ UNCHANGED <<bmVars, acctVars, svcVars, uiVars>>

\* The accounts fetch of a handler run returned the row: the store is set
\* and loadProfilesAndSetDefault is called (it suspends at its fetch).
HandlerAccountFound(h) ==
    LET rows    == AccountFetch(accountsTbl, h.sess, TRUE)
        newAuth == AccountFoundState(h.sess, CHOOSE r \in rows : TRUE)
    IN  /\ h \in handlers
        /\ h.pc = "fetch"
        /\ rows # {}
        /\ auth' = newAuth
        /\ loads' = loads \cup {[accountId |-> h.sess, by |-> h.ev]}
        /\ handlers' = (handlers \ {h}) \cup {[h EXCEPT !.pc = "load"]}
        /\ last' = [NoStep EXCEPT !.op = "accountFound", !.sess = h.sess]
        /\ UNCHANGED <<envVars, revision, logoutPending, nEvents, lastEvent>>
        /\ UNCHANGED <<currentProfile, profiles, sessionCache, bmVars, acctVars, svcVars, uiVars>>

\* The accounts fetch returned no row (or an error): signOut is called.
HandlerAccountMissing(h, ok) ==
    /\ h \in handlers
    /\ h.pc = "fetch"
    /\ AccountFetch(accountsTbl, h.sess, ok) = {}
    /\ handlers' = (handlers \ {h}) \cup
          {[h EXCEPT !.pc = "signout", !.signOuts = h.signOuts + 1]}
    /\ last' = [NoStep EXCEPT !.op = "accountMissing", !.sess = h.sess]
    /\ UNCHANGED <<envVars, revision, auth, logoutPending, nEvents, lastEvent>>
    /\ UNCHANGED <<profileVars, bmVars, acctVars, svcVars, uiVars>>

\* The provider completes the signOut a handler run awaits: the session is
\* gone and the no-session change event is delivered.
HandlerSignOutResolve(h) ==
    /\ h \in handlers
    /\ h.pc = "signout"
    /\ provSession' = NoSession
    /\ NoSessionBranch
    /\ handlers' = (handlers \ {h}) \cup {[h EXCEPT !.pc = "after"]}
    /\ last' = [NoStep EXCEPT !.op = "noSessionHandled", !.by = "handler",
                   !.profile = currentProfile]
    /\ UNCHANGED <<accountsTbl, profilesTbl, revision, logoutPending, nEvents, loads>>
    /\ UNCHANGED <<bmVars, acctVars, svcVars, uiVars>>

\* What follows `await supabase.auth.signOut()` in the missing-account
\* branch: nothing in authStore.ts, the reset of both stores in part_002.
HandlerAfterSignOut(h) ==
    /\ h \in handlers
    /\ h.pc = "after"
    /\ IF revision = "part_002"
       THEN /\ auth' = LoggedOutState
            /\ ClearProfile
       ELSE UNCHANGED <<auth, currentProfile, profiles, sessionCache>>
    /\ handlers' = handlers \ {h}
    /\ last' = [NoStep EXCEPT !.op = "orphanDone", !.sess = h.sess,
                   !.n = h.signOuts]
    /\ UNCHANGED <<envVars, revision, logoutPending, nEvents, lastEvent, loads>>
    /\ UNCHANGED <<bmVars, acctVars, svcVars, uiVars>>

\* logout() up to its await
Logout ==
    /\ ~logoutPending
    /\ logoutPending' = TRUE
    /\ last' = [NoStep EXCEPT !.op = "logout"]
    /\ UNCHANGED <<envVars, revision, auth, handlers, nEvents, lastEvent>>
    /\ UNCHANGED <<profileVars, bmVars, acctVars, svcVars, uiVars>>

\* The provider completes the signOut logout() awaits.
LogoutSignOutResolve ==
    /\ logoutPending
    /\ logoutPending' = FALSE
    /\ provSession' = NoSession
    /\ NoSessionBranch
    /\ last' = [NoStep EXCEPT !.op = "noSessionHandled", !.by = "logout",
                   !.profile = currentProfile]
    /\ UNCHANGED <<accountsTbl, profilesTbl, revision, handlers, nEvents, loads>>
    /\ UNCHANGED <<bmVars, acctVars, svcVars, uiVars>>

\* setCurrentProfile(profile), called by the pages with a profile of the
\* roster or of the selection dialog's own fetch of the account's profiles.
SetCurrentProfile(profile) ==
    /\ auth.account # Null
    /\ sessionCache' = SaveCurrentProfile(profile, sessionCache)
    /\ currentProfile' = SelectedAfterSet(profile)
    /\ last' = [NoStep EXCEPT !.op = "setCurrentProfile", !.profile = profile]
    /\ UNCHANGED <<envVars, authVars, profiles, loads, bmVars, acctVars, svcVars, uiVars>>

SelectableProfiles ==
    IF auth.account = Null THEN {}
    ELSE {profiles[i] : i \in 1..Len(profiles)} \cup
         {MapRowToProfile(r) : r \in
             {x \in profilesTbl : x.member_account_id = auth.account.id /\ x.is_active}}

\* The Account page's effect: loadProfilesAndSetDefault(account.id).
PageLoadProfiles ==
    /\ auth.account # Null
    /\ \A l \in loads : l.by # 0
    /\ loads' = loads \cup {[accountId |-> auth.account.id, by |-> 0]}
    /\ last' = [NoStep EXCEPT !.op = "pageLoad"]
    /\ UNCHANGED <<envVars, authVars, currentProfile, profiles, sessionCache, bmVars, acctVars, svcVars, uiVars>>

\* loadProfilesAndSetDefault from its fetch on.  A handler run that awaits
\* this call ends with it.
LoadProfilesResolve(l, ok) ==
    LET roster == MapRows(ActiveProfilesQuery(profilesTbl, l.accountId))
        sel    == DefaultSelection(currentProfile, roster)
    IN  /\ l \in loads
        /\ loads' = loads \ {l}
        /\ handlers' = {h \in handlers : h.ev # l.by}
        /\ IF ok
           THEN /\ profiles' = roster
                /\ IF sel # currentProfile
                   THEN /\ sessionCache' = SaveCurrentProfile(sel, sessionCache)
                        /\ currentProfile' = SelectedAfterSet(sel)
                   ELSE UNCHANGED <<sessionCache, currentProfile>>
           ELSE /\ profiles' = <<>>
                /\ UNCHANGED <<sessionCache, currentProfile>>
        /\ last' = [NoStep EXCEPT !.op = "loadProfiles", !.ok = ok,
                       !.profile = currentProfile,
                       !.by = IF l.by = 0 THEN "page" ELSE "handler"]
        /\ UNCHANGED <<envVars, revision, auth, logoutPending, nEvents, lastEvent>>
        /\ UNCHANGED <<bmVars, acctVars, svcVars, uiVars>>

\* No add-profile form submission was handled yet.
FormNoStep ==
    [op |-> "none", values |-> NullValue, accountId |-> NullValue,
     profileId |-> NullValue, issued |-> FALSE, payload |-> NullValue]

\* The Dashboard before its first load: useState([]) for the lists,
\* useState(false) for loading, useState(null) for error.  activityOf and
\* bookmarksOf name the profile whose records the lists hold; effectFor is
\* the currentProfile?.id the load effect ran for last; loaded holds the
\* profiles whose load has resolved with data, resolvedFor and resolvedOk
\* tell the load that resolved last.
DashboardInit ==
    [activityOf |-> NullValue, bookmarksOf |-> NullValue, loading |-> FALSE,
     error |-> NullValue, effectFor |-> NullValue, loaded |-> {},
     resolvedFor |-> NullValue, resolvedOk |-> FALSE]

\* The Login page before a submit: useState(null), useState(false)
LoginPageInit == [error |-> NullValue, loading |-> FALSE, route |-> "/"]

\* A page reload in the same browser session: every store is constructed
\* anew, suspended calls are gone, the session storage and the provider's
\* session stay.
Reload ==
    /\ auth' = AuthInitialState
    /\ handlers' = {}
    /\ logoutPending' = FALSE
    /\ lastEvent' = NoSession
    /\ currentProfile' = LoadCurrentProfile(sessionCache)
    /\ profiles' = <<>>
    /\ loads' = {}
    /\ bookmarkedPaths' = {}
    /\ bmLoading' = FALSE
    /\ bmToggles' = {}
    /\ bmLoads' = {}
    /\ last' = [NoStep EXCEPT !.op = "reload", !.after = last.op,
                   !.profile = last.profile]
    /\ checkSessionPc' = "idle"
    /\ loginPage' = [LoginPageInit EXCEPT !.route = loginPage.route]
    /\ acctUpdates' = {}
    /\ svcCalls' = {}
    /\ UNCHANGED <<envVars, revision, nEvents, sessionCache, bookmarksTbl, bmLast>>
    /\ UNCHANGED <<acctLast, svcRevision, activityTbl, progressTbl, svcLast, now>>
    /\ profileInserts' = {}
    /\ refreshes' = {}
    /\ deletes' = {}
    /\ dashboard' = DashboardInit
    /\ dashLoads' = {}
    /\ profileLoads' = {}
    /\ profileLoading' = FALSE
    /\ UNCHANGED formLast

\* A profile row is deleted, or deactivated, through the Account page of
\* this or of another browser session.
RemoteDeleteProfile(id) ==
    /\ \E r \in profilesTbl : r.id = id
    /\ profilesTbl' = {r \in profilesTbl : r.id # id}
    /\ last' = [NoStep EXCEPT !.op = "remoteDelete"]
    /\ UNCHANGED <<provSession, accountsTbl, authVars, profileVars, bmVars, acctVars, svcVars, uiVars>>

(***************************************************************************)
(* Profile Store: loadProfiles and refreshCurrentProfile; the Account      *)
(* page's handleDelete                                                     *)
(***************************************************************************)

MaxPendingProfileCalls == 1

\* A profile row is edited through the profile form of this or of another
\* browser session.
EditedFirstName == "Alicia"

RemoteEditProfile(id) ==
    /\ \E r \in profilesTbl : r.id = id /\ r.first_name # EditedFirstName
    /\ profilesTbl' = {IF r.id = id THEN [r EXCEPT !.first_name = EditedFirstName]
                       ELSE r : r \in profilesTbl}
    /\ last' = [NoStep EXCEPT !.op = "remoteEdit"]
    /\ UNCHANGED <<provSession, accountsTbl, authVars, profileVars, bmVars,
                   acctVars, svcVars, uiVars>>

\* loadProfiles(accountId) up to its await: set({loading: true}) and the
\* fetch of the account's active rows.
LoadProfiles(accountId) ==
    /\ Cardinality(profileLoads) < MaxPendingProfileCalls
    /\ profileLoads' = profileLoads \cup {[accountId |-> accountId]}
    /\ profileLoading' = TRUE
    /\ last' = [NoStep EXCEPT !.op = "loadProfilesStart"]
    /\ UNCHANGED <<envVars, authVars, profileVars, bmVars, acctVars, svcVars>>
    /\ UNCHANGED <<profileInserts, formLast, refreshes, deletes, dashboard, dashLoads>>

\* loadProfiles from its await on: the roster is what the fetch returned, or
\* empty when the fetch reported an error (the error is rethrown); the
\* finally block clears the flag.
LoadedRosterMut(tbl, accountId, ok) == profiles
LoadedRoster(tbl, accountId, ok) ==
    IF ok THEN MapRows(ActiveProfilesQuery(tbl, accountId)) ELSE <<>>

LoadProfilesFetched(l, ok) ==
    /\ l \in profileLoads
    /\ profileLoads' = profileLoads \ {l}
    /\ profiles' = LoadedRoster(profilesTbl, l.accountId, ok)
    /\ profileLoading' = FALSE
    /\ last' = [NoStep EXCEPT !.op = "loadProfilesFetched", !.ok = ok,
                   !.by = l.accountId]
    /\ UNCHANGED <<envVars, authVars, currentProfile, sessionCache, loads>>
    /\ UNCHANGED <<bmVars, acctVars, svcVars>>
    /\ UNCHANGED <<profileInserts, formLast, refreshes, deletes, dashboard, dashLoads>>

\* refreshCurrentProfile up to its await.  Without a selection it returns
\* at once; with one it fetches the row of the selected id.
RefreshCalls(selected, pending) ==
    IF selected = Null THEN pending ELSE pending \cup {[id |-> selected.id]}

RefreshCurrentProfile ==
    /\ Cardinality(refreshes) < MaxPendingProfileCalls
    /\ refreshes' = RefreshCalls(currentProfile, refreshes)
    /\ last' = [NoStep EXCEPT !.op = "refreshCalled", !.profile = currentProfile]
    /\ UNCHANGED <<envVars, authVars, profileVars, bmVars, acctVars, svcVars>>
    /\ UNCHANGED <<profileInserts, formLast, deletes, dashboard, dashLoads,
                   profileLoads, profileLoading>>

\* .eq('id', id).single(): the rows found; a reported error, and a result
\* that is not exactly one row, give {error}.
RefreshFetch(tbl, id, ok) == IF ok THEN {r \in tbl : r.id = id} ELSE {}

\* refreshCurrentProfile from its await on: set({currentProfile:
\* updatedProfile}), saveCurrentProfile(updatedProfile); an error is logged
\* and nothing is written.
RefreshedProfileMut(rows) == currentProfile
RefreshedProfile(rows) == MapRowToProfile(CHOOSE r \in rows : TRUE)

\* saveCurrentProfile(updatedProfile) of refreshCurrentProfile
RefreshedItemMut(updatedProfile, item) == item
RefreshedItem(updatedProfile, item) == SaveCurrentProfile(updatedProfile, item)

RefreshResolve(c, ok) ==
    LET rows == RefreshFetch(profilesTbl, c.id, ok)
    IN  /\ c \in refreshes
        /\ refreshes' = refreshes \ {c}
        /\ IF rows # {}
           THEN /\ currentProfile' = RefreshedProfile(rows)
                /\ sessionCache' = RefreshedItem(RefreshedProfile(rows), sessionCache)
           ELSE UNCHANGED <<currentProfile, sessionCache>>
        /\ last' = [NoStep EXCEPT !.op = "refresh", !.ok = (rows # {}),
                       !.by = c.id, !.profile = currentProfile]
        /\ UNCHANGED <<envVars, authVars, profiles, loads, bmVars, acctVars, svcVars>>
        /\ UNCHANGED <<profileInserts, formLast, deletes, dashboard, dashLoads,
                       profileLoads, profileLoading>>

\* handleDelete up to its await: the page holds the account and the profile
\* chosen in its roster, and issues the delete of the profile's row.  The
\* handler keeps the currentProfile and profiles its render read.
HandleDelete(profileToDelete) ==
    /\ auth.account # Null
    /\ Cardinality(deletes) < MaxPendingProfileCalls
    /\ deletes' = deletes \cup
          {[id |-> profileToDelete.id, accountId |-> auth.account.id,
            currentProfile |-> currentProfile, profiles |-> profiles,
            pc |-> "delete"]}
    /\ last' = [NoStep EXCEPT !.op = "handleDeleteCalled"]
    /\ UNCHANGED <<envVars, authVars, profileVars, bmVars, acctVars, svcVars>>
    /\ UNCHANGED <<profileInserts, formLast, refreshes, dashboard, dashLoads,
                   profileLoads, profileLoading>>

\* remainingProfiles[0] || null
RemainingFirstMut(roster, id) ==
    IF Len(roster) > 0 THEN roster[1] ELSE Null
RemainingFirst(roster, id) ==
    LET remainingProfiles == SelectSeq(roster, LAMBDA p : p.id # id)
    IN  IF Len(remainingProfiles) > 0 THEN remainingProfiles[1] ELSE Null

\* handleDelete after the delete: on {error} the catch block toasts and
\* nothing else happens; else, when the deleted profile was the current one,
\* setCurrentProfile(remainingProfiles[0] || null), and then
\* loadProfilesAndSetDefault(account.id) is awaited.
HandleDeleteResolve(d, ok) ==
    /\ d \in deletes
    /\ d.pc = "delete"
    /\ IF ok
       THEN /\ profilesTbl' = {r \in profilesTbl : r.id # d.id}
            /\ deletes' = (deletes \ {d}) \cup {[d EXCEPT !.pc = "load"]}
            /\ IF d.currentProfile # Null /\ d.currentProfile.id = d.id
               THEN LET next == RemainingFirst(d.profiles, d.id)
                    IN  /\ sessionCache' = SaveCurrentProfile(next, sessionCache)
                        /\ currentProfile' = SelectedAfterSet(next)
               ELSE UNCHANGED <<sessionCache, currentProfile>>
            /\ last' = [NoStep EXCEPT !.op = "deleted", !.by = d.id,
                           !.profile = d.currentProfile]
       ELSE /\ deletes' = deletes \ {d}
            /\ UNCHANGED <<profilesTbl, sessionCache, currentProfile>>
            /\ last' = [NoStep EXCEPT !.op = "deleteFailed", !.by = d.id,
                           !.profile = d.currentProfile]
    /\ UNCHANGED <<provSession, accountsTbl, authVars, profiles, loads>>
    /\ UNCHANGED <<bmVars, acctVars, svcVars>>
    /\ UNCHANGED <<profileInserts, formLast, refreshes, dashboard, dashLoads,
                   profileLoads, profileLoading>>

\* handleDelete from its loadProfilesAndSetDefault on: the call resolves (or
\* rejects, which the catch block toasts) and the handler ends.
HandleDeleteLoadResolve(d, ok) ==
    LET roster == MapRows(ActiveProfilesQuery(profilesTbl, d.accountId))
        sel    == DefaultSelection(currentProfile, roster)
    IN  /\ d \in deletes
        /\ d.pc = "load"
        /\ deletes' = deletes \ {d}
        /\ IF ok
           THEN /\ profiles' = roster
                /\ IF sel # currentProfile
                   THEN /\ sessionCache' = SaveCurrentProfile(sel, sessionCache)
                        /\ currentProfile' = SelectedAfterSet(sel)
                   ELSE UNCHANGED <<sessionCache, currentProfile>>
           ELSE /\ profiles' = <<>>
                /\ UNCHANGED <<sessionCache, currentProfile>>
        /\ last' = [NoStep EXCEPT !.op = "deleteDone", !.by = d.id, !.ok = ok,
                       !.profile = d.currentProfile]
        /\ UNCHANGED <<envVars, authVars, loads, bmVars, acctVars, svcVars>>
        /\ UNCHANGED <<profileInserts, formLast, refreshes, dashboard, dashLoads,
                       profileLoads, profileLoading>>

\* The Profile Store and the Account page of a signed-in account, next to a
\* logout and to edits of the profile rows.
ProfileNext ==
    \/ Logout
    \/ LogoutSignOutResolve
    \/ \E p \in SelectableProfiles : SetCurrentProfile(p)
    \/ auth.account # Null /\ LoadProfiles(auth.account.id)
    \/ \E l \in profileLoads, ok \in BOOLEAN : LoadProfilesFetched(l, ok)
    \/ RefreshCurrentProfile
    \/ \E c \in refreshes, ok \in BOOLEAN : RefreshResolve(c, ok)
    \/ \E i \in 1..Len(profiles) : HandleDelete(profiles[i])
    \/ \E d \in deletes, ok \in BOOLEAN : HandleDeleteResolve(d, ok)
    \/ \E d \in deletes, ok \in BOOLEAN : HandleDeleteLoadResolve(d, ok)
    \/ RemoteEditProfile("pA")

(***************************************************************************)
(* Dashboard page (Dashboard.tsx): the load of the profile's data          *)
(***************************************************************************)

\* currentProfile?.id
CurrentProfileId == IF currentProfile = Null THEN NullValue ELSE currentProfile.id

\* The effect on [currentProfile?.id]: without a selection it returns; with
\* one, loadDashboardData runs up to its await Promise.all: setLoading(true),
\* setError(null), and the four fetches are issued for the selected profile.
DashboardEffect ==
    /\ dashboard.effectFor # CurrentProfileId
    /\ IF CurrentProfileId = NullValue
       THEN /\ dashboard' = [dashboard EXCEPT !.effectFor = NullValue]
            /\ dashLoads' = dashLoads
       ELSE /\ dashboard' = [dashboard EXCEPT !.effectFor = CurrentProfileId,
                                !.loading = TRUE, !.error = NullValue]
            /\ dashLoads' = dashLoads \cup {CurrentProfileId}
    /\ UNCHANGED <<envVars, authVars, profileVars, last, bmVars, acctVars, svcVars>>
    /\ UNCHANGED <<profileInserts, formLast, refreshes, deletes, profileLoads,
                   profileLoading>>

\* setActivity(activityData), setBookmarks(bookmarksData): the lists show the
\* records fetched for the profile the load was started for, whichever
\* profile is current by then.
DisplayedAfterLoadMut(shown, loadedFor, current) ==
    IF loadedFor = current THEN loadedFor ELSE shown
DisplayedAfterLoad(shown, loadedFor, current) == loadedFor

DashboardLoadError == "Failed to load dashboard data"

\* loadDashboardData from its await on; the finally block clears loading.
DashboardLoadResolve(p, ok) ==
    /\ p \in dashLoads
    /\ dashLoads' = dashLoads \ {p}
    /\ dashboard' =
          IF ok
          THEN [dashboard EXCEPT
                   !.activityOf = DisplayedAfterLoad(@, p, CurrentProfileId),
                   !.bookmarksOf = DisplayedAfterLoad(@, p, CurrentProfileId),
                   !.loading = FALSE, !.loaded = @ \cup {p},
                   !.resolvedFor = p, !.resolvedOk = TRUE]
          ELSE [dashboard EXCEPT !.error = DashboardLoadError, !.loading = FALSE,
                   !.resolvedFor = p, !.resolvedOk = FALSE]
    /\ UNCHANGED <<envVars, authVars, profileVars, last, bmVars, acctVars, svcVars>>
    /\ UNCHANGED <<profileInserts, formLast, refreshes, deletes, profileLoads,
                   profileLoading>>

\* The Dashboard of a signed-in account whose profile is switched.
DashboardNext ==
    \/ \E p \in SelectableProfiles : SetCurrentProfile(p)
    \/ DashboardEffect
    \/ \E p \in dashLoads, ok \in BOOLEAN : DashboardLoadResolve(p, ok)
    \/ Logout
    \/ LogoutSignOutResolve

(***************************************************************************)
(* Auth Store: checkSession, login and updateAccount; the Login page       *)
(***************************************************************************)

\* updateAccount calls that may be suspended at once
MaxPendingUpdates == 1

\* The users that have an accounts row and sign in on this device.
AccountHolders == {"u1"}

\* Errors with which the provider rejects signInWithPassword.
ProviderErrors ==
    {[message |-> "Invalid login credentials", status |-> "400"],
     [message |-> "Request rate limit reached", status |-> "429"]}
NoError == [message |-> "", status |-> ""]

\* checkSession after `await supabase.auth.getSession()`: only the absence
\* of a session is acted on, with set({isInitialized: true}).
CheckSessionStateMut(state, session) == [state EXCEPT !.isInitialized = TRUE]
CheckSessionState(state, session) ==
    IF session = NoSession THEN [state EXCEPT !.isInitialized = TRUE] ELSE state

\* login: `if (error) throw error`
LoginThrownMut(error) == [error EXCEPT !.message = ""]
LoginThrown(error) == error

\* The Login page's catch block: setError(e?.message || 'Login failed')
LoginErrorShown(e) == OrElse(e.message, "Login failed")

\* The fields of Account that updateAccount copies, and a Partial<Account>
\* (a key that is absent reads as undefined).
AccountUpdateValues == {Undefined, NullValue, "new"}
AllAccountUpdates ==
    [email : AccountUpdateValues, pharmacyName : AccountUpdateValues,
     pharmacyPhone : AccountUpdateValues, address1 : AccountUpdateValues,
     city : AccountUpdateValues, state : AccountUpdateValues,
     zipcode : AccountUpdateValues]
NoUpdates ==
    [email |-> Undefined, pharmacyName |-> Undefined, pharmacyPhone |-> Undefined,
     address1 |-> Undefined, city |-> Undefined, state |-> Undefined,
     zipcode |-> Undefined]

\* The Account page's handleSave: the argument it builds from its form.
\* `form.x || null` and `form.zipcode ? parseInt(form.zipcode, 10) : null`
HandleSaveUpdates(form) ==
    [email |-> form.email, pharmacyName |-> form.pharmacyName,
     pharmacyPhone |-> OrElse(form.pharmacyPhone, NullValue),
     address1 |-> OrElse(form.address1, NullValue),
     city |-> OrElse(form.city, NullValue),
     state |-> OrElse(form.state, NullValue),
     zipcode |-> IF form.zipcode # "" THEN form.zipcode ELSE NullValue]

\* Two states of the form: every input filled in, and the optional ones empty.
AccountForms ==
    {[email |-> "new", pharmacyName |-> "new", pharmacyPhone |-> "new",
      address1 |-> "new", city |-> "new", state |-> "new", zipcode |-> "new"],
     [email |-> "new", pharmacyName |-> "new", pharmacyPhone |-> "",
      address1 |-> "", city |-> "", state |-> "", zipcode |-> ""]}

\* The arguments updateAccount is called with when it runs next to the
\* other operations of the store.
SomeAccountUpdates ==
    {HandleSaveUpdates(f) : f \in AccountForms} \cup
    {NoUpdates, [NoUpdates EXCEPT !.pharmacyName = "new"],
     [NoUpdates EXCEPT !.pharmacyPhone = NullValue]}

EmptyPayload == [c \in {} |-> ""]

\* `if (value !== undefined) updatePayload[column] = value`
PutIfDefinedMut(payload, column, value) ==
    IF value \notin {Undefined, NullValue}
    THEN [c \in DOMAIN payload \cup {column} |->
             IF c = column THEN value ELSE payload[c]]
    ELSE payload
PutIfDefined(payload, column, value) ==
    IF value # Undefined
    THEN [c \in DOMAIN payload \cup {column} |->
             IF c = column THEN value ELSE payload[c]]
    ELSE payload

\* updatePayload as updateAccount builds it, one conditional copy per field
UpdatePayload(updates) ==
    LET p1 == PutIfDefined(EmptyPayload, "email", updates.email)
        p2 == PutIfDefined(p1, "pharmacy_name", updates.pharmacyName)
        p3 == PutIfDefined(p2, "pharmacy_phone", updates.pharmacyPhone)
        p4 == PutIfDefined(p3, "address1", updates.address1)
        p5 == PutIfDefined(p4, "city", updates.city)
        p6 == PutIfDefined(p5, "state", updates.state)
    IN  PutIfDefined(p6, "zipcode", updates.zipcode)

\* from('accounts').update(payload).eq('id', id): the table afterwards
UpdatedRow(row, payload) ==
    [c \in DOMAIN row |-> IF c \in DOMAIN payload THEN payload[c] ELSE row[c]]
AccountsAfterUpdate(tbl, payload, id) ==
    {IF r.id = id THEN UpdatedRow(r, payload) ELSE r : r \in tbl}

\* .select().single(): the one updated row; no row is an error
UpdateReturned(tbl, payload, id) ==
    {UpdatedRow(r, payload) : r \in {x \in tbl : x.id = id}}

\* `data ? mapRowToAccount(data) : null`, then set({account}) and return
AccountAfterUpdateMut(current, rows) == current
AccountAfterUpdate(current, rows) ==
    IF rows # {} THEN MapRowToAccount(CHOOSE r \in rows : TRUE) ELSE Null

AcctNoStep ==
    [op |-> "none", sessionSeen |-> NoSession, error |-> NoError,
     thrown |-> NoError, updates |-> NoUpdates, userId |-> NoSession,
     payload |-> EmptyPayload, returned |-> Null]

AcctInit ==
    /\ checkSessionPc = "idle"
    /\ loginPage = LoginPageInit
    /\ acctUpdates = {}
    /\ acctLast = AcctNoStep

\* The App's effect calls checkSession() once after the store is built.
CheckSessionStart ==
    /\ checkSessionPc = "idle"
    /\ checkSessionPc' = "pending"
    /\ acctLast' = [AcctNoStep EXCEPT !.op = "checkSessionStart"]
    /\ UNCHANGED <<loginPage, acctUpdates>>
    /\ UNCHANGED <<envVars, authVars, profileVars, last, bmVars, svcVars, uiVars>>

\* getSession() resolved with the provider's session.
CheckSessionResolve ==
    /\ checkSessionPc = "pending"
    /\ checkSessionPc' = "done"
    /\ auth' = CheckSessionState(auth, provSession)
    /\ acctLast' = [AcctNoStep EXCEPT !.op = "checkSession",
                       !.sessionSeen = provSession]
    /\ UNCHANGED <<loginPage, acctUpdates>>
    /\ UNCHANGED <<envVars, revision, handlers, logoutPending, nEvents, lastEvent>>
    /\ UNCHANGED <<profileVars, last, bmVars, svcVars, uiVars>>

\* The Login page's onSubmit up to `await login(email, password)`.
LoginSubmit ==
    /\ ~loginPage.loading
    /\ loginPage' = [error |-> NullValue, loading |-> TRUE, route |-> "/login"]
    /\ acctLast' = [AcctNoStep EXCEPT !.op = "loginSubmit"]
    /\ UNCHANGED <<checkSessionPc, acctUpdates>>
    /\ UNCHANGED <<envVars, authVars, profileVars, last, bmVars, svcVars, uiVars>>

\* The provider accepts the credentials: the session is established, the
\* change event reaches the handler, login resolves and the page navigates.
LoginAccepted(u) ==
    /\ loginPage.loading
    /\ provSession' = u
    /\ SessionBranchStart(u)
    /\ loginPage' = [loginPage EXCEPT !.loading = FALSE, !.route = "/dashboard"]
    /\ acctLast' = [AcctNoStep EXCEPT !.op = "loginAccepted", !.sessionSeen = u]
    /\ UNCHANGED <<checkSessionPc, acctUpdates>>
    /\ UNCHANGED <<accountsTbl, profilesTbl, revision, auth, logoutPending>>
    /\ UNCHANGED <<profileVars, last, bmVars, svcVars, uiVars>>

\* The provider rejects the credentials with `error`: login throws, the
\* page's catch block shows the message, finally clears the loading flag.
LoginRejected(error) ==
    /\ loginPage.loading
    /\ loginPage' = [loginPage EXCEPT !.loading = FALSE,
                        !.error = LoginErrorShown(LoginThrown(error))]
    /\ acctLast' = [AcctNoStep EXCEPT !.op = "loginRejected", !.error = error,
                       !.thrown = LoginThrown(error)]
    /\ UNCHANGED <<checkSessionPc, acctUpdates>>
    /\ UNCHANGED <<envVars, authVars, profileVars, last, bmVars, svcVars, uiVars>>

\* `if (!user) throw new Error('No authenticated user')`
NoAuthenticatedUserMut(user) == FALSE
NoAuthenticatedUser(user) == user = NoSession

NoUserError == [message |-> "No authenticated user", status |-> ""]

\* Errors the accounts update can report: a storage failure, or no row
\* for .single() (code PGRST116).
StorageError == [message |-> "storage failure", status |-> "500"]
NoRowsError == [message |-> "PGRST116", status |-> "406"]

\* updateAccount up to `await supabase.auth.getUser()`
UpdateAccountStart(updates) ==
    /\ Cardinality(acctUpdates) < MaxPendingUpdates
    /\ acctUpdates' = acctUpdates \cup
          {[updates |-> updates, pc |-> "getUser", userId |-> NoSession,
            payload |-> EmptyPayload]}
    /\ acctLast' = [AcctNoStep EXCEPT !.op = "updateStart", !.updates = updates]
    /\ UNCHANGED <<checkSessionPc, loginPage>>
    /\ UNCHANGED <<envVars, authVars, profileVars, last, bmVars, svcVars, uiVars>>

\* getUser() resolved: without a user the call throws; with one the payload
\* is built and the update is issued.
UpdateAccountUserResolved(c) ==
    /\ c \in acctUpdates
    /\ c.pc = "getUser"
    /\ IF NoAuthenticatedUser(provSession)
       THEN /\ acctUpdates' = acctUpdates \ {c}
            /\ acctLast' = [AcctNoStep EXCEPT !.op = "updateNoUser",
                               !.updates = c.updates, !.thrown = NoUserError]
       ELSE /\ acctUpdates' = (acctUpdates \ {c}) \cup
                  {[c EXCEPT !.pc = "update", !.userId = provSession,
                             !.payload = UpdatePayload(c.updates)]}
            /\ acctLast' = [AcctNoStep EXCEPT !.op = "updateIssued",
                               !.updates = c.updates, !.userId = provSession,
                               !.payload = UpdatePayload(c.updates)]
    /\ UNCHANGED <<checkSessionPc, loginPage>>
    /\ UNCHANGED <<envVars, authVars, profileVars, last, bmVars, svcVars, uiVars>>

\* The update resolved: with the updated row (the account is replaced and
\* returned) or with an error (thrown).
UpdateAccountResolve(c, ok) ==
    LET rows == IF ok THEN UpdateReturned(accountsTbl, c.payload, c.userId) ELSE {}
        account == AccountAfterUpdate(auth.account, rows)
    IN  /\ c \in acctUpdates
        /\ c.pc = "update"
        /\ acctUpdates' = acctUpdates \ {c}
        /\ IF rows # {}
           THEN /\ accountsTbl' = AccountsAfterUpdate(accountsTbl, c.payload, c.userId)
                /\ auth' = [auth EXCEPT !.account = account]
                /\ acctLast' = [AcctNoStep EXCEPT !.op = "updateDone",
                                   !.updates = c.updates, !.userId = c.userId,
                                   !.payload = c.payload, !.returned = account]
           ELSE /\ UNCHANGED <<accountsTbl, auth>>
                /\ acctLast' = [AcctNoStep EXCEPT !.op = "updateFailed",
                                   !.updates = c.updates, !.userId = c.userId,
                                   !.payload = c.payload,
                                   !.error = IF ok THEN NoRowsError ELSE StorageError,
                                   !.thrown = IF ok THEN NoRowsError ELSE StorageError]
        /\ UNCHANGED <<checkSessionPc, loginPage>>
        /\ UNCHANGED <<provSession, profilesTbl>>
        /\ UNCHANGED <<revision, handlers, logoutPending, nEvents, lastEvent>>
        /\ UNCHANGED <<profileVars, last, bmVars, svcVars, uiVars>>

\* checkSession and the Login page next to the session events of the store
SessionNext ==
    \/ CheckSessionStart
    \/ CheckSessionResolve
    \/ LoginSubmit
    \/ \E u \in AccountHolders : LoginAccepted(u)
    \/ \E e \in ProviderErrors : LoginRejected(e)
    \/ ProviderSessionEvent
    \/ \E h \in handlers : HandlerAccountFound(h)
    \/ Logout
    \/ LogoutSignOutResolve
    \/ Reload

\* updateAccount next to sign-in and sign-out
AcctNext ==
    \/ \E u \in AccountHolders : Login(u)
    \/ \E h \in handlers : HandlerAccountFound(h)
    \/ Logout
    \/ LogoutSignOutResolve
    \/ \E u \in SomeAccountUpdates : UpdateAccountStart(u)
    \/ \E c \in acctUpdates : UpdateAccountUserResolved(c)
    \/ \E c \in acctUpdates, ok \in BOOLEAN : UpdateAccountResolve(c, ok)

\* updateAccount applied to every argument, one call per run, by the signed-in
\* account u1.
PayloadNext ==
    \/ /\ acctLast.op = "none"
       /\ \E u \in AllAccountUpdates : UpdateAccountStart(u)
    \/ \E c \in acctUpdates : UpdateAccountUserResolved(c)
    \/ \E c \in acctUpdates, ok \in BOOLEAN : UpdateAccountResolve(c, ok)

(***************************************************************************)
(* Profile Dashboard Service (profileDashboardService.ts).  The file holds *)
(* the service twice, for two schema revisions: lines 1-325 ("rev1") and   *)
(* lines 326-685 ("rev2").  The functions keep no state of their own; each *)
(* group of them works on one remote table.                                *)
(***************************************************************************)

\* service calls that may be suspended at once
MaxPendingCalls == 2
\* rows the recent_activity table may hold
MaxActivityRows == 3

ServiceRevisions == {"rev1", "rev2"}

\* The instants the clock passes through, as new Date().toISOString() renders
\* them.
ClockTimes == <<"2024-03-01T09:00:00.000Z", "2024-03-01T09:05:00.000Z">>
ToISOString(t) == ClockTimes[t]

\* How a remote table call can end: done, or a storage error in the result.
SvcOutcomes == {"ok", "error"}
SvcStorageError == [code |-> "XX000", message |-> "storage failure"]
SvcNoRowsError == [code |-> "PGRST116", message |-> "no rows"]
SvcConflictError == [code |-> "23505", message |-> "duplicate key"]
SvcNoError == [code |-> "", message |-> ""]

\* A row with the columns of `payload` written over it.
MergeRow(row, payload) ==
    [c \in DOMAIN row \cup DOMAIN payload |->
        IF c \in DOMAIN payload THEN payload[c] ELSE row[c]]

\* A new row: the payload, and null in the other columns.
NewRow(columns, payload) ==
    MergeRow([c \in columns |-> NullValue], payload)

SvcNoStep ==
    [op |-> "none", profileId |-> "", target |-> "", arg |-> 0, flag |-> FALSE,
     payload |-> EmptyPayload, outcome |-> "", thrown |-> SvcNoError,
     returned |-> Null, before |-> {}]

\* ---- training progress: table member_training_progress

TrainingProfiles == {"pA"}
TrainingModules == {"mod1"}
PercentageArgs == {-10, 0, 50, 100, 150}

ProgressColumns(rev) ==
    IF rev = "rev1"
    THEN {"member_profile_id", "training_module_id", "module_name", "start_time",
          "completed_time", "completion_status", "completion_percentage"}
    ELSE {"member_profile_id", "training_module_id", "started_at",
          "completed_at", "is_completed", "completion_percentage", "attempts"}

\* The row another profile holds for the same module.
EarlierProgress(rev) ==
    {NewRow(ProgressColumns(rev),
        IF rev = "rev1"
        THEN [member_profile_id |-> "pB", training_module_id |-> "mod1",
              module_name |-> "Module 1", start_time |-> "2024-02-01T00:00:00.000Z",
              completion_status |-> "in_progress", completion_percentage |-> 40]
        ELSE [member_profile_id |-> "pB", training_module_id |-> "mod1",
              started_at |-> "2024-02-01T00:00:00.000Z", is_completed |-> FALSE,
              completion_percentage |-> 40, attempts |-> 1])}

\* Math.min(100, Math.max(0, completionPercentage))
Max(a, b) == IF a >= b THEN a ELSE b
Min(a, b) == IF a <= b THEN a ELSE b
ClampPercentageMut(completionPercentage) == Max(0, completionPercentage)
ClampPercentage(completionPercentage) == Min(100, Max(0, completionPercentage))

\* startTrainingModule: the row it upserts
StartPayload(rev, profileId, moduleId, moduleName, t) ==
    IF rev = "rev1"
    THEN [member_profile_id |-> profileId, training_module_id |-> moduleId,
          module_name |-> moduleName, start_time |-> ToISOString(t),
          completion_status |-> "in_progress", completion_percentage |-> 0]
    ELSE [member_profile_id |-> profileId, training_module_id |-> moduleId,
          started_at |-> ToISOString(t), is_completed |-> FALSE,
          completion_percentage |-> 0, attempts |-> 1]

\* updateTrainingProgress: updateData.  `completed` is the status argument:
\* completionStatus === 'completed' in rev1, isCompleted in rev2.
StampIfCompletedMut(data, rev, completed, t) == data
StampIfCompleted(data, rev, completed, t) ==
    IF completed
    THEN MergeRow(data, IF rev = "rev1"
                        THEN [completed_time |-> ToISOString(t)]
                        ELSE [completed_at |-> ToISOString(t)])
    ELSE data
UpdateData(rev, completionPercentage, completed, t) ==
    StampIfCompleted(
        IF rev = "rev1"
        THEN [completion_percentage |-> ClampPercentage(completionPercentage),
              completion_status |-> IF completed THEN "completed" ELSE "in_progress"]
        ELSE [completion_percentage |-> ClampPercentage(completionPercentage),
              is_completed |-> completed],
        rev, completed, t)

\* .eq('member_profile_id', profileId).eq('training_module_id', moduleId)
ProgressMatch(tbl, profileId, moduleId) ==
    {r \in tbl : r.member_profile_id = profileId /\ r.training_module_id = moduleId}

\* upsert(payload, {onConflict: 'member_profile_id,training_module_id'})
ProgressUpsert(tbl, rev, payload) ==
    LET hit == ProgressMatch(tbl, payload.member_profile_id, payload.training_module_id)
    IN  IF hit = {}
        THEN tbl \cup {NewRow(ProgressColumns(rev), payload)}
        ELSE (tbl \ hit) \cup {MergeRow(r, payload) : r \in hit}

\* Mutant of ProgressUpdate: an upsert, which creates the row when none matches
ProgressUpdateMut(tbl, data, profileId, moduleId) ==
    IF ProgressMatch(tbl, profileId, moduleId) = {}
    THEN tbl \cup {MergeRow(data, [member_profile_id |-> profileId,
                                   training_module_id |-> moduleId])}
    ELSE {IF r \in ProgressMatch(tbl, profileId, moduleId) THEN MergeRow(r, data) ELSE r :
             r \in tbl}

\* update(updateData).eq(...).eq(...)
ProgressUpdate(tbl, data, profileId, moduleId) ==
    {IF r \in ProgressMatch(tbl, profileId, moduleId) THEN MergeRow(r, data) ELSE r :
        r \in tbl}

\* getModuleProgress: the object built from the row found (`x || 0` of a
\* stored percentage x is x)
ModuleProgressOf(rev, data) ==
    IF rev = "rev1"
    THEN [trainingModuleId |-> data.training_module_id,
          moduleName |-> OrElse(data.module_name, "Unknown Module"),
          startTime |-> data.start_time, completedTime |-> data.completed_time,
          completionPercentage |-> data.completion_percentage,
          completionStatus |-> OrElse(data.completion_status, "not_started")]
    ELSE [trainingModuleId |-> data.training_module_id,
          moduleName |-> "Unknown Module",
          startTime |-> data.started_at, completedTime |-> data.completed_at,
          completionPercentage |-> data.completion_percentage,
          completionStatus |->
              IF data.is_completed THEN "completed"
              ELSE IF data.started_at # NullValue THEN "in_progress"
              ELSE "not_started",
          isCompleted |-> data.is_completed, attempts |-> data.attempts]

\* getModuleProgress after its fetch with .single(): `error` is the error of
\* the result, `rows` the rows that matched.
ModuleProgressThrowsMut(error) == error # SvcNoError
ModuleProgressThrows(error) == error # SvcNoError /\ error.code # "PGRST116"

ModuleProgressResult(rev, error, rows) ==
    IF error # SvcNoError THEN Null
    ELSE ModuleProgressOf(rev, CHOOSE r \in rows : TRUE)

\* The error .single() reports for the rows that matched.
SingleError(rows, outcome) ==
    IF outcome = "error" THEN SvcStorageError
    ELSE IF Cardinality(rows) # 1 THEN SvcNoRowsError
    ELSE SvcNoError

SvcInit ==
    /\ svcRevision \in ServiceRevisions
    /\ activityTbl = {}
    /\ progressTbl = EarlierProgress(svcRevision)
    /\ svcCalls = {}
    /\ svcLast = SvcNoStep
    /\ now = 1

\* A service call suspended at its await: the function, its arguments, the
\* payload it built before the await.
SvcCall(fn, profileId, target, arg, flag, payload) ==
    [fn |-> fn, profileId |-> profileId, target |-> target, arg |-> arg,
     flag |-> flag, payload |-> payload, pc |-> "table", resourceId |-> ""]

SvcSuspend(call) ==
    /\ Cardinality(svcCalls) < MaxPendingCalls
    /\ call \notin svcCalls
    /\ svcCalls' = svcCalls \cup {call}
    /\ svcLast' = [SvcNoStep EXCEPT !.op = "call"]

\* Time passes.
Tick ==
    /\ now < Len(ClockTimes)
    /\ now' = now + 1
    /\ UNCHANGED <<svcRevision, activityTbl, progressTbl, svcCalls, svcLast>>
    /\ UNCHANGED <<envVars, authVars, profileVars, last, bmVars, acctVars, uiVars>>

\* startTrainingModule up to its await
StartTrainingModule(profileId, moduleId) ==
    /\ SvcSuspend(SvcCall("startTrainingModule", profileId, moduleId, 0, FALSE,
                          StartPayload(svcRevision, profileId, moduleId, "Module 1", now)))
    /\ UNCHANGED <<svcRevision, activityTbl, progressTbl, now>>
    /\ UNCHANGED <<envVars, authVars, profileVars, last, bmVars, acctVars, uiVars>>

\* startTrainingModule from its await on
StartTrainingModuleResolve(c, outcome) ==
    /\ c \in svcCalls
    /\ c.fn = "startTrainingModule"
    /\ svcCalls' = svcCalls \ {c}
    /\ progressTbl' = IF outcome = "ok"
                      THEN ProgressUpsert(progressTbl, svcRevision, c.payload)
                      ELSE progressTbl
    /\ svcLast' = [SvcNoStep EXCEPT !.op = c.fn, !.profileId = c.profileId,
                      !.target = c.target, !.payload = c.payload,
                      !.outcome = outcome,
                      !.thrown = IF outcome = "ok" THEN SvcNoError ELSE SvcStorageError]
    /\ UNCHANGED <<svcRevision, activityTbl, now>>
    /\ UNCHANGED <<envVars, authVars, profileVars, last, bmVars, acctVars, uiVars>>

\* updateTrainingProgress up to its await
UpdateTrainingProgress(profileId, moduleId, completionPercentage, completed) ==
    /\ SvcSuspend(SvcCall("updateTrainingProgress", profileId, moduleId,
                          completionPercentage, completed,
                          UpdateData(svcRevision, completionPercentage, completed, now)))
    /\ UNCHANGED <<svcRevision, activityTbl, progressTbl, now>>
    /\ UNCHANGED <<envVars, authVars, profileVars, last, bmVars, acctVars, uiVars>>

\* completeTrainingModule: updateTrainingProgress(profileId, moduleId, 100,
\* 'completed') in rev1, (..., 100, true) in rev2
CompleteTrainingModule(profileId, moduleId) ==
    /\ SvcSuspend(SvcCall("completeTrainingModule", profileId, moduleId, 100, TRUE,
                          UpdateData(svcRevision, 100, TRUE, now)))
    /\ UNCHANGED <<svcRevision, activityTbl, progressTbl, now>>
    /\ UNCHANGED <<envVars, authVars, profileVars, last, bmVars, acctVars, uiVars>>

\* updateTrainingProgress from its await on (also when called by
\* completeTrainingModule)
UpdateTrainingProgressResolve(c, outcome) ==
    /\ c \in svcCalls
    /\ c.fn \in {"updateTrainingProgress", "completeTrainingModule"}
    /\ svcCalls' = svcCalls \ {c}
    /\ progressTbl' = IF outcome = "ok"
                      THEN ProgressUpdate(progressTbl, c.payload, c.profileId, c.target)
                      ELSE progressTbl
    /\ svcLast' = [SvcNoStep EXCEPT !.op = c.fn, !.profileId = c.profileId,
                      !.target = c.target, !.arg = c.arg, !.flag = c.flag,
                      !.payload = c.payload, !.outcome = outcome,
                      !.thrown = IF outcome = "ok" THEN SvcNoError ELSE SvcStorageError]
    /\ UNCHANGED <<svcRevision, activityTbl, now>>
    /\ UNCHANGED <<envVars, authVars, profileVars, last, bmVars, acctVars, uiVars>>

\* getModuleProgress up to its await
GetModuleProgress(profileId, moduleId) ==
    /\ SvcSuspend(SvcCall("getModuleProgress", profileId, moduleId, 0, FALSE,
                          EmptyPayload))
    /\ UNCHANGED <<svcRevision, activityTbl, progressTbl, now>>
    /\ UNCHANGED <<envVars, authVars, profileVars, last, bmVars, acctVars, uiVars>>

\* getModuleProgress from its await on
GetModuleProgressResolve(c, outcome) ==
    LET rows  == ProgressMatch(progressTbl, c.profileId, c.target)
        error == SingleError(rows, outcome)
    IN  /\ c \in svcCalls
        /\ c.fn = "getModuleProgress"
        /\ svcCalls' = svcCalls \ {c}
        /\ svcLast' =
              IF ModuleProgressThrows(error)
              THEN [SvcNoStep EXCEPT !.op = c.fn, !.profileId = c.profileId,
                       !.target = c.target, !.outcome = "throws", !.thrown = error]
              ELSE [SvcNoStep EXCEPT !.op = c.fn, !.profileId = c.profileId,
                       !.target = c.target, !.outcome = "returns",
                       !.returned = ModuleProgressResult(svcRevision, error, rows)]
        /\ UNCHANGED <<svcRevision, activityTbl, progressTbl, now>>
        /\ UNCHANGED <<envVars, authVars, profileVars, last, bmVars, acctVars, uiVars>>

TrainingNext ==
    \/ Tick
    \/ \E p \in TrainingProfiles, m \in TrainingModules : StartTrainingModule(p, m)
    \/ \E c \in svcCalls, o \in SvcOutcomes : StartTrainingModuleResolve(c, o)
    \/ \E p \in TrainingProfiles, m \in TrainingModules, n \in PercentageArgs,
          done \in BOOLEAN : UpdateTrainingProgress(p, m, n, done)
    \/ \E p \in TrainingProfiles, m \in TrainingModules : CompleteTrainingModule(p, m)
    \/ \E c \in svcCalls, o \in SvcOutcomes : UpdateTrainingProgressResolve(c, o)
    \/ \E p \in TrainingProfiles, m \in TrainingModules : GetModuleProgress(p, m)
    \/ \E c \in svcCalls, o \in SvcOutcomes : GetModuleProgressResolve(c, o)

\* ---- recent activity: table recent_activity

ActivityProfiles == {"pA"}

\* The resources a profile opens; optional fields left out are undefined.
Resources ==
    {[name |-> "Guide A", path |-> "a.pdf", url |-> Undefined,
      programSlug |-> "mtm", mimeType |-> "application/pdf"],
     [name |-> "Form B", path |-> "b.pdf", url |-> Undefined,
      programSlug |-> Undefined, mimeType |-> Undefined]}

ActivityColumns(rev) ==
    IF rev = "rev1"
    THEN {"id", "member_profile_id", "resource_name", "resource_path",
          "resource_url", "program_slug", "mime_type", "accessed_at"}
    ELSE {"id", "profile_id", "resource_name", "resource_type", "accessed_at"}

ActivityProfileColumn(rev) == IF rev = "rev1" THEN "member_profile_id" ELSE "profile_id"

\* The rows of a profile for a resource name.
ActivityRows(tbl, rev, profileId, name) ==
    {r \in tbl : r[ActivityProfileColumn(rev)] = profileId /\ r.resource_name = name}

\* trackResourceAccess: the object it sends (a key whose value is undefined
\* is not serialised).  rev1 sends the access time, rev2 leaves it to the
\* column's default.
TrackPayload(rev, profileId, resource, t) ==
    IF rev = "rev1"
    THEN LET p1 == [member_profile_id |-> profileId, resource_name |-> resource.name,
                    resource_path |-> resource.path, accessed_at |-> ToISOString(t)]
             p2 == PutIfDefined(p1, "resource_url", resource.url)
             p3 == PutIfDefined(p2, "program_slug", resource.programSlug)
         IN  PutIfDefined(p3, "mime_type", resource.mimeType)
    ELSE [profile_id |-> profileId, resource_name |-> resource.name,
          resource_type |-> OrElse(resource.mimeType, "file")]

\* rev1: upsert(payload, {onConflict: 'member_profile_id,resource_path'});
\* rev2: insert(payload), its accessed_at filled in when the row is written.
TrackWrite(tbl, rev, payload, t) ==
    IF rev = "rev1"
    THEN LET hit == {r \in tbl :
                       /\ r.member_profile_id = payload.member_profile_id
                       /\ r.resource_path = payload.resource_path}
         IN  IF hit = {}
             THEN tbl \cup {NewRow(ActivityColumns(rev),
                                   MergeRow(payload, [id |-> Cardinality(tbl) + 1]))}
             ELSE (tbl \ hit) \cup {MergeRow(r, payload) : r \in hit}
    ELSE tbl \cup {NewRow(ActivityColumns(rev),
                          MergeRow(payload, [id |-> Cardinality(tbl) + 1,
                                             accessed_at |-> ToISOString(t)]))}

\* How the write of trackResourceAccess can end.  "conflict" is the answer of
\* a table that enforces one row per profile and resource to a plain insert
\* of a second row; whether the rev2 table enforces it is not in the source.
TrackOutcomes == {"ok", "conflict", "error"}

\* trackResourceAccess up to its await
TrackResourceAccess(profileId, resource) ==
    /\ SvcSuspend(SvcCall("trackResourceAccess", profileId, resource.name, now, FALSE,
                          TrackPayload(svcRevision, profileId, resource, now)))
    /\ UNCHANGED <<svcRevision, activityTbl, progressTbl, now>>
    /\ UNCHANGED <<envVars, authVars, profileVars, last, bmVars, acctVars, uiVars>>

\* trackResourceAccess from its await on: an error is logged and thrown
TrackResourceAccessResolve(c, outcome) ==
    LET already == ActivityRows(activityTbl, svcRevision, c.profileId, c.target)
        after   == TrackWrite(activityTbl, svcRevision, c.payload, now)
    IN  /\ c \in svcCalls
        /\ c.fn = "trackResourceAccess"
        /\ outcome = "conflict" => (svcRevision = "rev2" /\ already # {})
        /\ outcome = "ok" => Cardinality(after) <= MaxActivityRows
        /\ svcCalls' = svcCalls \ {c}
        /\ activityTbl' = IF outcome = "ok" THEN after ELSE activityTbl
        /\ svcLast' = [SvcNoStep EXCEPT !.op = c.fn, !.profileId = c.profileId,
                          !.target = c.target,
                          !.arg = IF svcRevision = "rev1" THEN c.arg ELSE now,
                          !.payload = c.payload, !.outcome = outcome,
                          !.thrown = IF outcome = "ok" THEN SvcNoError
                                     ELSE IF outcome = "conflict" THEN SvcConflictError
                                     ELSE SvcStorageError,
                          !.before = already]
        /\ UNCHANGED <<svcRevision, progressTbl, now>>
        /\ UNCHANGED <<envVars, authVars, profileVars, last, bmVars, acctVars, uiVars>>

ActivityNext ==
    \/ Tick
    \/ \E p \in ActivityProfiles, r \in Resources : TrackResourceAccess(p, r)
    \/ \E c \in svcCalls, o \in TrackOutcomes : TrackResourceAccessResolve(c, o)

\* ---- bookmarks of the service: tables bookmarks and storage_files_catalog

ServiceBookmarkProfiles == {"pA"}

\* The storage catalog: a.pdf has an entry, b.pdf has none.
CatalogRows == {[id |-> "f1", file_path |-> "a.pdf"]}

\* from('storage_files_catalog').select('id').eq('file_path', path)
CatalogMatch(path) == {r \in CatalogRows : r.file_path = path}

\* The value a bookmarks row holds for the resource: the path in rev1, the
\* catalog id found by the lookup in rev2.
BookmarkResource(rev, c) == IF rev = "rev1" THEN c.target ELSE c.resourceId

\* isBookmarked: `if (fileError) return false`; add and remove:
\* `if (fileError) throw fileError`
LookupFailureThrowsMut(fn) == TRUE
LookupFailureThrows(fn) == fn # "isBookmarked"

\* A bookmark function up to its first await: the catalog lookup in rev2,
\* the bookmarks call in rev1.
BookmarkCall(fn, profileId, path) ==
    /\ SvcSuspend([SvcCall(fn, profileId, path, 0, FALSE, EmptyPayload)
                      EXCEPT !.pc = IF svcRevision = "rev1" THEN "table" ELSE "catalog"])
    /\ UNCHANGED <<svcRevision, activityTbl, progressTbl, now>>
    /\ UNCHANGED <<envVars, authVars, profileVars, last, bmVars, acctVars, uiVars>>

AddBookmark(profileId, path) == BookmarkCall("addBookmark", profileId, path)

RemoveBookmark(profileId, path) == BookmarkCall("removeBookmark", profileId, path)

ServiceIsBookmarked(profileId, path) == BookmarkCall("isBookmarked", profileId, path)

\* The catalog lookup of a rev2 bookmark function resolved.
CatalogLookupResolve(c, outcome) ==
    LET rows      == CatalogMatch(c.target)
        fileError == SingleError(rows, outcome)
    IN  /\ c \in svcCalls
        /\ c.fn \in {"addBookmark", "removeBookmark", "isBookmarked"}
        /\ c.pc = "catalog"
        /\ IF fileError # SvcNoError
           THEN /\ svcCalls' = svcCalls \ {c}
                /\ svcLast' =
                      IF LookupFailureThrows(c.fn)
                      THEN [SvcNoStep EXCEPT !.op = c.fn, !.profileId = c.profileId,
                               !.target = c.target, !.outcome = "throws",
                               !.thrown = fileError, !.before = bookmarksTbl]
                      ELSE [SvcNoStep EXCEPT !.op = c.fn, !.profileId = c.profileId,
                               !.target = c.target, !.outcome = "returns",
                               !.flag = FALSE, !.before = bookmarksTbl]
           ELSE /\ svcCalls' = (svcCalls \ {c}) \cup
                      {[c EXCEPT !.pc = "table",
                                 !.resourceId = (CHOOSE r \in rows : TRUE).id]}
                /\ svcLast' = [SvcNoStep EXCEPT !.op = "lookup", !.target = c.target]
        /\ UNCHANGED bookmarksTbl
        /\ UNCHANGED <<bookmarkedPaths, bmLoading, bmToggles, bmLoads, bmLast>>
        /\ UNCHANGED <<svcRevision, activityTbl, progressTbl, now>>
        /\ UNCHANGED <<envVars, authVars, profileVars, last, acctVars, uiVars>>

\* The bookmarks call of a bookmark function resolved: the insert, the
\* delete or the select.  An insert of a pair the table holds is refused.
BookmarkTableResolve(c, outcome) ==
    LET row   == <<c.profileId, BookmarkResource(svcRevision, c)>>
        error == IF outcome = "error" THEN SvcStorageError
                 ELSE IF c.fn = "addBookmark" /\ row \in bookmarksTbl
                      THEN SvcConflictError
                 ELSE SvcNoError
    IN  /\ c \in svcCalls
        /\ c.fn \in {"addBookmark", "removeBookmark", "isBookmarked"}
        /\ c.pc = "table"
        /\ svcCalls' = svcCalls \ {c}
        /\ bookmarksTbl' =
              IF error # SvcNoError THEN bookmarksTbl
              ELSE IF c.fn = "addBookmark" THEN bookmarksTbl \cup {row}
              ELSE IF c.fn = "removeBookmark" THEN bookmarksTbl \ {row}
              ELSE bookmarksTbl
        /\ svcLast' =
              IF error # SvcNoError
              THEN [SvcNoStep EXCEPT !.op = c.fn, !.profileId = c.profileId,
                       !.target = c.target, !.outcome = "throws",
                       !.thrown = error, !.before = bookmarksTbl]
              ELSE [SvcNoStep EXCEPT !.op = c.fn, !.profileId = c.profileId,
                       !.target = c.target, !.outcome = "returns",
                       !.flag = (c.fn = "isBookmarked" /\ row \in bookmarksTbl),
                       !.before = bookmarksTbl]
        /\ UNCHANGED <<bookmarkedPaths, bmLoading, bmToggles, bmLoads, bmLast>>
        /\ UNCHANGED <<svcRevision, activityTbl, progressTbl, now>>
        /\ UNCHANGED <<envVars, authVars, profileVars, last, acctVars, uiVars>>

CatalogNext ==
    \/ \E p \in ServiceBookmarkProfiles, r \in Paths : AddBookmark(p, r)
    \/ \E p \in ServiceBookmarkProfiles, r \in Paths : RemoveBookmark(p, r)
    \/ \E p \in ServiceBookmarkProfiles, r \in Paths : ServiceIsBookmarked(p, r)
    \/ \E c \in svcCalls, o \in SvcOutcomes : CatalogLookupResolve(c, o)
    \/ \E c \in svcCalls, o \in SvcOutcomes : BookmarkTableResolve(c, o)

\* ---- getRecentActivity: the most recent rows of recent_activity

MaxStoredAccesses == 12

RecentProfiles == {"pA", "pB"}

\* n as two digits
TwoDigits(n) == IF n < 10 THEN "0" \o ToString(n) ELSE ToString(n)

\* The access times of the stored rows, one per day, and the position of such
\* a time in time order (the database compares accessed_at values).
AccessTimes == [d \in 1..(MaxStoredAccesses + 1) |->
                   "2024-02-" \o TwoDigits(d) \o "T10:00:00.000Z"]
AccessRank(ts) == CHOOSE d \in DOMAIN AccessTimes : AccessTimes[d] = ts

\* The i-th row the table can hold: rows are not stored in time order, each
\* is for a resource of its own, and the first one belongs to profile pB.
StoredAccess(rev, i) ==
    LET name == "Guide " \o ToString(i)
        at   == AccessTimes[((i * 5) % (MaxStoredAccesses + 1)) + 1]
        who  == IF i = 1 THEN "pB" ELSE "pA"
    IN  IF rev = "rev1"
        THEN NewRow(ActivityColumns(rev),
                    [id |-> "act" \o ToString(i), member_profile_id |-> who,
                     resource_name |-> name, resource_path |-> name \o ".pdf",
                     accessed_at |-> at])
        ELSE NewRow(ActivityColumns(rev),
                    [id |-> "act" \o ToString(i), profile_id |-> who,
                     resource_name |-> name, resource_type |-> "file",
                     accessed_at |-> at])

\* .order('accessed_at', {ascending: false})
RECURSIVE NewestFirstMut(_)
RECURSIVE NewestFirst(_)
NewestFirstMut(rows) ==
    IF rows = {} THEN <<>>
    ELSE LET oldest == CHOOSE r \in rows : \A q \in rows :
                           AccessRank(r.accessed_at) <= AccessRank(q.accessed_at)
         IN  <<oldest>> \o NewestFirstMut(rows \ {oldest})
NewestFirst(rows) ==
    IF rows = {} THEN <<>>
    ELSE LET newest == CHOOSE r \in rows : \A q \in rows :
                           AccessRank(q.accessed_at) <= AccessRank(r.accessed_at)
         IN  <<newest>> \o NewestFirst(rows \ {newest})

\* .limit(10)
RecentLimit == 10
Limit(rows, n) == SubSeq(rows, 1, Min(n, Len(rows)))

\* from('recent_activity').select('*').eq(<profile column>, profileId)
\*    .order('accessed_at', {ascending: false}).limit(10)
RecentActivityQuery(tbl, rev, profileId) ==
    Limit(NewestFirst({r \in tbl : r[ActivityProfileColumn(rev)] = profileId}),
          RecentLimit)

\* The object getRecentActivity builds from a row
MapActivityRow(rev, row) ==
    IF rev = "rev1"
    THEN [id |-> row.id, resourceName |-> row.resource_name,
          resourcePath |-> row.resource_path, resourceUrl |-> row.resource_url,
          programSlug |-> row.program_slug, accessedAt |-> row.accessed_at]
    ELSE [id |-> row.id, resourceName |-> row.resource_name,
          resourceType |-> row.resource_type, accessedAt |-> row.accessed_at]

\* getRecentActivity(profileId) up to its await
GetRecentActivity(profileId) ==
    /\ SvcSuspend(SvcCall("getRecentActivity", profileId, "", 0, FALSE, EmptyPayload))
    /\ UNCHANGED <<svcRevision, activityTbl, progressTbl, now>>
    /\ UNCHANGED <<envVars, authVars, profileVars, last, bmVars, acctVars, uiVars>>

\* getRecentActivity from its await on: throws the error reported, else
\* returns the mapped rows.
GetRecentActivityResolve(c, outcome) ==
    LET data == RecentActivityQuery(activityTbl, svcRevision, c.profileId)
    IN  /\ c \in svcCalls
        /\ c.fn = "getRecentActivity"
        /\ svcCalls' = svcCalls \ {c}
        /\ svcLast' =
              IF outcome = "ok"
              THEN [SvcNoStep EXCEPT !.op = c.fn, !.profileId = c.profileId,
                       !.outcome = "ok",
                       !.returned = [i \in 1..Len(data) |->
                                        MapActivityRow(svcRevision, data[i])]]
              ELSE [SvcNoStep EXCEPT !.op = c.fn, !.profileId = c.profileId,
                       !.outcome = "error", !.thrown = SvcStorageError]
        /\ UNCHANGED <<svcRevision, activityTbl, progressTbl, now>>
        /\ UNCHANGED <<envVars, authVars, profileVars, last, bmVars, acctVars, uiVars>>

RecentNext ==
    \/ \E p \in RecentProfiles : GetRecentActivity(p)
    \/ \E c \in svcCalls, o \in SvcOutcomes : GetRecentActivityResolve(c, o)

(***************************************************************************)
(* Add-profile form (AddProfileModal): the schema and onSubmit.  What the  *)
(* user typed into a field is a sequence of characters.                    *)
(***************************************************************************)

Digits == {"0", "1", "2", "3", "4", "5", "6", "7", "8", "9"}
Whitespace == {" "}
ROLE_OPTIONS == {"Pharmacist-PIC", "Pharmacist-Staff", "Pharmacy Technician"}

\* /^(0[1-9]|1[0-2])$/
MatchesMonthMut(v) ==
    /\ Len(v) = 2
    /\ v[1] \in {"0", "1"} /\ v[2] \in Digits
MatchesMonth(v) ==
    /\ Len(v) = 2
    /\ \/ v[1] = "0" /\ v[2] \in Digits \ {"0"}
       \/ v[1] = "1" /\ v[2] \in {"0", "1", "2"}

\* /^(0[1-9]|[12][0-9]|3[01])$/
MatchesDay(v) ==
    /\ Len(v) = 2
    /\ \/ v[1] = "0" /\ v[2] \in Digits \ {"0"}
       \/ v[1] \in {"1", "2"} /\ v[2] \in Digits
       \/ v[1] = "3" /\ v[2] \in {"0", "1"}

\* /^(19|20)\d{2}$/
MatchesYear(v) ==
    /\ Len(v) = 4
    /\ <<v[1], v[2]>> \in {<<"1", "9">>, <<"2", "0">>}
    /\ v[3] \in Digits /\ v[4] \in Digits

\* /^[0-9+()\-\s]{7,}$/
MatchesPhone(v) ==
    /\ Len(v) >= 7
    /\ \A i \in 1..Len(v) : v[i] \in Digits \cup {"+", "(", ")", "-"} \cup Whitespace

\* /^[^@\s]+@[^@\s]+\.[^@\s]+$/
MatchesEmail(v) ==
    LET plain(a, b) == /\ a <= b
                       /\ \A k \in a..b : v[k] \notin {"@"} \cup Whitespace
    IN  \E i, j \in 1..Len(v) :
           /\ v[i] = "@" /\ v[j] = "."
           /\ plain(1, i - 1) /\ plain(i + 1, j - 1) /\ plain(j + 1, Len(v))

\* optional().refine((v) => !v || <pattern>.test(v)): the empty text passes
Refined(v, matches) == v = <<>> \/ matches

\* The schema: what zodResolver(schema) accepts
SchemaAccepts(data) ==
    /\ data.roleType \in ROLE_OPTIONS
    /\ Len(data.firstName) >= 1
    /\ Len(data.lastName) >= 1
    /\ Refined(data.phoneNumber, MatchesPhone(data.phoneNumber))
    /\ Refined(data.profileEmail, MatchesEmail(data.profileEmail))
    /\ Refined(data.dobMonth, MatchesMonth(data.dobMonth))
    /\ Refined(data.dobDay, MatchesDay(data.dobDay))
    /\ Refined(data.dobYear, MatchesYear(data.dobYear))

\* The text of a field as the string sent to the table
RECURSIVE TextOf(_)
TextOf(v) == IF v = <<>> THEN "" ELSE v[1] \o TextOf(Tail(v))

\* text || null
TextOrNull(v) == IF v = <<>> THEN NullValue ELSE TextOf(v)

\* profileData of onSubmit
ProfileData(accountId, data) ==
    [member_account_id |-> accountId, role_type |-> data.roleType,
     first_name |-> TextOf(data.firstName), last_name |-> TextOf(data.lastName),
     phone_number |-> TextOrNull(data.phoneNumber),
     profile_email |-> TextOrNull(data.profileEmail),
     dob_month |-> TextOrNull(data.dobMonth), dob_day |-> TextOrNull(data.dobDay),
     dob_year |-> TextOrNull(data.dobYear),
     license_number |-> NullValue, nabp_eprofile_id |-> NullValue,
     is_active |-> TRUE]

\* What is typed into the form: texts that match and texts that violate
\* each pattern, and the empty text
MonthTexts == {<<>>, <<"0", "1">>, <<"1", "2">>, <<"1", "3">>, <<"0", "0">>}
DayTexts == {<<>>, <<"0", "9">>, <<"3", "1">>, <<"3", "2">>, <<"9">>}
YearTexts == {<<>>, <<"1", "9", "9", "9">>, <<"2", "0", "2", "4">>,
              <<"1", "8", "9", "9">>, <<"2", "0", "2">>}
NameTexts == {<<>>, <<"A", "l">>}
PhoneTexts == {<<>>, <<"5", "5", "5", "-", "1", "2", "3", "4">>, <<"5", "5", "5">>}
EmailTexts == {<<>>, <<"a", "@", "b", ".", "c">>, <<"a", "@", "b">>}
FormValues ==
    [roleType : {"Pharmacist-Staff", Undefined}, firstName : NameTexts,
     lastName : NameTexts, phoneNumber : PhoneTexts, profileEmail : EmailTexts,
     dobMonth : MonthTexts, dobDay : DayTexts, dobYear : YearTexts]

\* The form is submitted, to create a profile (profileId null) or to edit
\* one.  handleSubmit runs the resolver; values the schema rejects are
\* reported in the form and onSubmit is not called.  onSubmit returns when
\* no account is signed in; else it issues the update or the insert and
\* suspends.
SubmitProfileForm(data, profileId) ==
    /\ formLast.op = "none"
    /\ IF ~SchemaAccepts(data)
       THEN /\ profileInserts' = profileInserts
            /\ formLast' = [FormNoStep EXCEPT !.op = "rejected", !.values = data,
                               !.profileId = profileId]
       ELSE IF auth.account = Null
       THEN /\ profileInserts' = profileInserts
            /\ formLast' = [FormNoStep EXCEPT !.op = "noAccount", !.values = data,
                               !.profileId = profileId]
       ELSE /\ profileInserts' = profileInserts \cup
                  {[kind |-> IF profileId # NullValue THEN "update" ELSE "insert",
                    profileId |-> profileId, accountId |-> auth.account.id,
                    payload |-> ProfileData(auth.account.id, data)]}
            /\ formLast' = [FormNoStep EXCEPT !.op = "submitted", !.values = data,
                               !.profileId = profileId,
                               !.accountId = auth.account.id, !.issued = TRUE,
                               !.payload = ProfileData(auth.account.id, data)]
    /\ UNCHANGED <<envVars, authVars, profileVars, last, bmVars, acctVars, svcVars>>
    /\ UNCHANGED <<refreshes, deletes, dashboard, dashLoads, profileLoads,
                   profileLoading>>

\* The id and the creation time the table gives a new row
NewProfileId == "pC"
NewProfileCreatedAt == "2024-03-01"

\* The write onSubmit awaits ends: the row is inserted, or the row of the
\* profile and account is updated; on {error} the catch block toasts.
ProfileWriteResolve(c, ok) ==
    /\ c \in profileInserts
    /\ profileInserts' = profileInserts \ {c}
    /\ profilesTbl' =
          IF ~ok THEN profilesTbl
          ELSE IF c.kind = "insert"
          THEN profilesTbl \cup
                  {MergeRow([id |-> NewProfileId, created_at |-> NewProfileCreatedAt],
                            c.payload)}
          ELSE {IF r.id = c.profileId /\ r.member_account_id = c.accountId
                THEN MergeRow(r, c.payload) ELSE r : r \in profilesTbl}
    /\ formLast' = [formLast EXCEPT !.op = IF ok THEN "saved" ELSE "saveFailed"]
    /\ UNCHANGED <<provSession, accountsTbl, authVars, profileVars, last>>
    /\ UNCHANGED <<bmVars, acctVars, svcVars>>
    /\ UNCHANGED <<refreshes, deletes, dashboard, dashLoads, profileLoads,
                   profileLoading>>

\* One submission of the form, by a signed-in account or after its logout.
FormNext ==
    \/ /\ formLast.op = "none"
       /\ \E data \in FormValues, profileId \in {NullValue, "pA"} :
             SubmitProfileForm(data, profileId)
    \/ \E c \in profileInserts, ok \in BOOLEAN : ProfileWriteResolve(c, ok)
    \/ Logout
    \/ LogoutSignOutResolve

Next ==
    \/ \E u \in Users : Login(u)
    \/ ProviderSessionEvent
    \/ ProviderNoSessionEvent
    \/ \E h \in handlers : HandlerAccountFound(h)
    \/ \E h \in handlers, ok \in BOOLEAN : HandlerAccountMissing(h, ok)
    \/ \E h \in handlers : HandlerSignOutResolve(h)
    \/ \E h \in handlers : HandlerAfterSignOut(h)
    \/ Logout
    \/ LogoutSignOutResolve
    \/ \E p \in SelectableProfiles : SetCurrentProfile(p)
    \/ PageLoadProfiles
    \/ \E l \in loads, ok \in BOOLEAN : LoadProfilesResolve(l, ok)
    \/ Reload
    \/ \E id \in {"pA", "pB"} : RemoteDeleteProfile(id)


(***************************************************************************)
(* Claims about the Auth Store and the Profile Store, under Spec           *)
(***************************************************************************)

\* C1: when a handler run for a session without an accounts row ends, the
\* Auth Store is logged out (session, user and account null, isAuthenticated
\* false), the Profile Store is cleared, and signOut was called exactly once
\* by that run.
C1_OrphanSessionEndsLoggedOut ==
    (last.op = "orphanDone" /\ \A r \in accountsTbl : r.id # last.sess) =>
        /\ auth.session = NoSession
        /\ auth.user = NoSession
        /\ auth.account = Null
        /\ ~auth.isAuthenticated
        /\ currentProfile = Null
        /\ profiles = <<>>
        /\ sessionCache = NoItem
        /\ last.n = 1

\* C2: in the step in which a handler run starts the profile load for an
\* account, the Auth Store holds that account: session, user and account are
\* set, isAuthenticated and isInitialized are true.
C2_ProfileLoadAfterAccount ==
    [][\A l \in loads' \ loads :
          l.by # 0 =>
             /\ auth'.session = l.accountId
             /\ auth'.user = l.accountId
             /\ auth'.account # Null
             /\ auth'.account.id = l.accountId
             /\ auth'.isAuthenticated
             /\ auth'.isInitialized]_vars

\* a profile load started by a handler run is suspended at its fetch
C2_Witness == \E l \in loads : l.by # 0 /\ l.accountId = "u1"

\* C3: once no handler run is in flight, the Auth Store reflects the change
\* event delivered last: logged out if it carried no session, else holding
\* that session and its account.
C3_LatestEventWins ==
    handlers = {} =>
        IF lastEvent = NoSession
        THEN auth.session = NoSession /\ auth.account = Null /\ ~auth.isAuthenticated
        ELSE auth.session = lastEvent /\ auth.account # Null
                /\ auth.account.id = lastEvent

C8_NoDanglingSelection ==
    (/\ last.op = "loadProfiles"
     /\ last.ok
     /\ last.profile # Null
     /\ last.profile.id \notin {profiles[i].id : i \in 1..Len(profiles)}) =>
        /\ currentProfile # last.profile
        /\ \/ currentProfile = Null
           \/ \E i \in 1..Len(profiles) : profiles[i] = currentProfile

\* such a load has replaced the deleted selection by a profile of the roster
C8_Witness ==
    /\ last.op = "loadProfiles"
    /\ last.ok
    /\ last.profile # Null
    /\ last.profile.id \notin {profiles[i].id : i \in 1..Len(profiles)}
    /\ currentProfile # Null

C10_LogoutClearsStores ==
    /\ last.op = "logout" => logoutPending
    /\ last.op = "noSessionHandled" =>
          /\ auth.session = NoSession
          /\ auth.user = NoSession
          /\ auth.account = Null
          /\ ~auth.isAuthenticated
          /\ auth.isInitialized
          /\ currentProfile = Null
          /\ profiles = <<>>
          /\ sessionCache = NoItem

\* the event of a logout was handled while a profile was selected
C10_Witness ==
    /\ last.op = "noSessionHandled"
    /\ last.by = "logout"
    /\ last.profile # Null

(***************************************************************************)
(* Claims about the Profile Store and handleDelete, under SpecProfile      *)
(***************************************************************************)

C28_NoProfileDataAfterLogout ==
    (auth.isInitialized /\ lastEvent = NoSession /\ handlers = {})
        => (currentProfile = Null /\ profiles = <<>>)

(***************************************************************************)
(* Claims about the Dashboard's load, under SpecDashboard                  *)
(***************************************************************************)

\* C24: the Dashboard's load has no cancellation: a load that resolves with
\* data puts the records of the profile it was started for into the
\* displayed activity and bookmarks, also when another profile is current
\* and that profile's load has already resolved.
C24_LoadIsNotCancelled ==
    [][\A p \in dashLoads :
          (/\ p \notin dashLoads'
           /\ dashboard'.resolvedFor = p
           /\ dashboard'.resolvedOk)
              => /\ dashboard'.activityOf = p
                 /\ dashboard'.bookmarksOf = p]_vars

\* profile pB is current and its load has resolved, and the load started for
\* pA has resolved after it: the Dashboard shows pA's activity and bookmarks
C24_Witness ==
    /\ currentProfile # Null
    /\ currentProfile.id = "pB"
    /\ dashboard.effectFor = "pB"
    /\ "pB" \in dashboard.loaded
    /\ dashLoads = {}
    /\ dashboard.resolvedFor = "pA"
    /\ dashboard.resolvedOk
    /\ dashboard.activityOf = "pA"
    /\ dashboard.bookmarksOf = "pA"
    /\ ~dashboard.loading

(***************************************************************************)
(* Claims about checkSession and login, under SpecSession                  *)
(***************************************************************************)

\* C11: the step in which checkSession() gets the provider's answer: when
\* there is no session it sets isInitialized to true and leaves session, user,
\* account and isAuthenticated as they are (the logged-out values of a store
\* just built); when there is a session it changes no field of the Auth Store.
C11_CheckSessionOnlyInitializes ==
    [][(checkSessionPc = "pending" /\ checkSessionPc' = "done") =>
          IF provSession = NoSession
          THEN /\ auth'.isInitialized
               /\ auth'.session = auth.session
               /\ auth'.user = auth.user
               /\ auth'.account = auth.account
               /\ auth'.isAuthenticated = auth.isAuthenticated
               /\ (auth = AuthInitialState => auth' = LoggedOutState)
          ELSE auth' = auth]_vars

\* checkSession() found a session while the store was not yet initialized,
\* and left it so
C11_Witness ==
    /\ acctLast.op = "checkSession"
    /\ acctLast.sessionSeen = "u1"
    /\ ~auth.isInitialized

\* C12: the step in which the provider rejects the credentials: login throws
\* the provider's error itself, session, user, account and isAuthenticated
\* of the Auth Store are as before, the Login page shows the error's message
\* and stays on its route.
C12_RejectedLoginChangesNothing ==
    [][(loginPage.loading /\ ~loginPage'.loading /\ acctLast'.op = "loginRejected") =>
          /\ acctLast'.error \in ProviderErrors
          /\ acctLast'.thrown = acctLast'.error
          /\ auth' = auth
          /\ loginPage'.error = acctLast'.error.message
          /\ loginPage'.route = loginPage.route
          /\ loginPage'.route = "/login"]_vars

\* a login was rejected as rate-limited while an account was signed in
C12_Witness ==
    /\ acctLast.op = "loginRejected"
    /\ acctLast.error.status = "429"
    /\ auth.isAuthenticated
    /\ loginPage.error # NullValue

(***************************************************************************)
(* Claims about updateAccount and the Auth Store, under SpecAccount and    *)
(* SpecPayload                                                             *)
(***************************************************************************)

\* C13: the step in which updateAccount learns that the provider resolves no
\* user: it throws "No authenticated user", the accounts table is not
\* written and no update is issued, the in-memory account is unchanged.
C13_NoUserNoUpdate ==
    [][(\E c \in acctUpdates : c.pc = "getUser" /\ c \notin acctUpdates')
          /\ provSession = NoSession =>
          /\ acctLast'.op = "updateNoUser"
          /\ acctLast'.thrown.message = "No authenticated user"
          /\ accountsTbl' = accountsTbl
          /\ \A c \in acctUpdates' : c \in acctUpdates
          /\ auth'.account = auth.account]_vars

\* updateAccount was refused for want of a user while the store still held
\* an account
C13_Witness ==
    /\ acctLast.op = "updateNoUser"
    /\ auth.account # Null
    /\ acctLast.updates.pharmacyName = "new"

\* C14: the payload updateAccount sends holds exactly the columns of the
\* fields that are not undefined in its argument, each with the field's
\* value (null as null); the update changes only the row of the current user,
\* and in it only the columns sent.
C14_PayloadHoldsDefinedFields ==
    LET column == [email |-> "email", pharmacyName |-> "pharmacy_name",
                   pharmacyPhone |-> "pharmacy_phone", address1 |-> "address1",
                   city |-> "city", state |-> "state", zipcode |-> "zipcode"]
        u == acctLast.updates
        sent == {f \in DOMAIN column : u[f] # Undefined}
    IN  /\ acctLast.op \in {"updateIssued", "updateDone", "updateFailed"} =>
              /\ DOMAIN acctLast.payload = {column[f] : f \in sent}
              /\ \A f \in sent : acctLast.payload[column[f]] = u[f]
              /\ acctLast.userId = provSession
        /\ acctLast.op = "updateDone" =>
              \A old \in AccountRows :
                 \E r \in accountsTbl :
                    /\ r.id = old.id
                    /\ old.id # acctLast.userId => r = old
                    /\ old.id = acctLast.userId =>
                          \A c \in DOMAIN old :
                             r[c] = IF c \in {column[f] : f \in sent}
                                    THEN u[CHOOSE f \in sent : column[f] = c]
                                    ELSE old[c]

\* an update that sent null for the phone, a new city and nothing else was
\* applied
C14_Witness ==
    /\ acctLast.op = "updateDone"
    /\ acctLast.updates.pharmacyPhone = NullValue
    /\ acctLast.updates.city = "new"
    /\ DOMAIN acctLast.payload = {"pharmacy_phone", "city"}

\* C15: the step in which the update of updateAccount resolves: on success
\* the in-memory account is the mapping of the row returned (the updated
\* row of the user) and is the value returned; on an error the error is
\* thrown and the in-memory account is unchanged.
C15_UpdateReplacesAccount ==
    [][(\E c \in acctUpdates : c.pc = "update" /\ c \notin acctUpdates') =>
          \/ /\ acctLast'.op = "updateDone"
             /\ \E r \in accountsTbl' :
                   /\ r.id = acctLast'.userId
                   /\ auth'.account = MapRowToAccount(r)
             /\ acctLast'.returned = auth'.account
             /\ acctLast'.thrown = NoError
          \/ /\ acctLast'.op = "updateFailed"
             /\ acctLast'.thrown = acctLast'.error
             /\ acctLast'.error # NoError
             /\ auth'.account = auth.account
             /\ accountsTbl' = accountsTbl]_vars

\* a successful update has replaced the in-memory account
C15_Witness ==
    /\ acctLast.op = "updateDone"
    /\ auth.account # Null
    /\ auth.account.pharmacyName = "new"
    /\ auth.account.pharmacyPhone = NullValue
    /\ acctLast.returned = auth.account

\* C26: in every state of the Auth Store, also while an updateAccount call
\* overlaps a logout or an auth event, isAuthenticated is true exactly when
\* session is non-null, and exactly when account is non-null.
C26_AuthFactsAgree ==
    /\ auth.isAuthenticated <=> (auth.session # NoSession)
    /\ (auth.session # NoSession) <=> (auth.account # Null)

(***************************************************************************)
(* Claims about the training progress functions, under SpecTraining        *)
(***************************************************************************)

\* C16: updateTrainingProgress stores min(100, max(0, completionPercentage)):
\* a value below 0 is stored as 0, one above 100 as 100, one within 0..100
\* as it is; and every percentage the table holds is within 0..100.
C16_PercentageClamped ==
    /\ \A r \in progressTbl :
          r.completion_percentage >= 0 /\ r.completion_percentage <= 100
    /\ (svcLast.op = "updateTrainingProgress" /\ svcLast.outcome = "ok") =>
          \A r \in ProgressMatch(progressTbl, svcLast.profileId, svcLast.target) :
             r.completion_percentage =
                IF svcLast.arg < 0 THEN 0
                ELSE IF svcLast.arg > 100 THEN 100
                ELSE svcLast.arg

\* an update called with 150 has stored 100 in the profile's row
C16_Witness ==
    /\ svcLast.op = "updateTrainingProgress"
    /\ svcLast.outcome = "ok"
    /\ svcLast.arg = 150
    /\ \E r \in ProgressMatch(progressTbl, "pA", "mod1") : r.completion_percentage = 100

\* C17: the update written by updateTrainingProgress with the completed
\* status, and by completeTrainingModule, carries a completion timestamp;
\* completeTrainingModule writes percentage 100 and the completed status; an
\* update with the in-progress status carries no completion timestamp.
C17_CompletedIsStamped ==
    LET stamp  == IF svcRevision = "rev1" THEN "completed_time" ELSE "completed_at"
        data   == svcLast.payload
        isDone == IF svcRevision = "rev1"
                  THEN data.completion_status = "completed"
                  ELSE data.is_completed
    IN  /\ (svcLast.op = "updateTrainingProgress" /\ svcLast.flag) =>
              (stamp \in DOMAIN data /\ data[stamp] # NullValue /\ isDone)
        /\ svcLast.op = "completeTrainingModule" =>
              /\ stamp \in DOMAIN data
              /\ data[stamp] # NullValue
              /\ data.completion_percentage = 100
              /\ isDone
        /\ (svcLast.op = "updateTrainingProgress" /\ ~svcLast.flag) =>
              (stamp \notin DOMAIN data /\ ~isDone)

\* completeTrainingModule has stamped the profile's row
C17_Witness ==
    /\ svcLast.op = "completeTrainingModule"
    /\ svcLast.outcome = "ok"
    /\ \E r \in ProgressMatch(progressTbl, "pA", "mod1") :
          /\ r.completion_percentage = 100
          /\ r[IF svcRevision = "rev1" THEN "completed_time" ELSE "completed_at"]
                # NullValue

\* C18: getModuleProgress returns null and throws nothing when the fetch
\* reports no row for the profile and module; it throws when the fetch
\* reports a storage error; when the row exists it returns the progress of
\* that row.
C18_MissingProgressIsNull ==
    svcLast.op = "getModuleProgress" =>
        LET rows == ProgressMatch(progressTbl, svcLast.profileId, svcLast.target)
        IN  IF svcLast.outcome = "throws"
            THEN svcLast.thrown = SvcStorageError /\ svcLast.returned = Null
            ELSE /\ svcLast.thrown = SvcNoError
                 /\ rows = {} => svcLast.returned = Null
                 /\ rows # {} =>
                       \E r \in rows :
                          /\ svcLast.returned # Null
                          /\ svcLast.returned.trainingModuleId = r.training_module_id
                          /\ svcLast.returned.completionPercentage = r.completion_percentage
                          /\ svcLast.returned.startTime =
                                r[IF svcRevision = "rev1" THEN "start_time"
                                  ELSE "started_at"]
                          /\ svcLast.returned.completedTime =
                                r[IF svcRevision = "rev1" THEN "completed_time"
                                  ELSE "completed_at"]

\* getModuleProgress has returned null for a module not started
C18_Witness ==
    /\ svcLast.op = "getModuleProgress"
    /\ svcLast.outcome = "returns"
    /\ svcLast.returned = Null
    /\ ProgressMatch(progressTbl, "pA", "mod1") = {}

\* C30: updateTrainingProgress and completeTrainingModule never create a
\* progress row: a call for a profile and module that have no row resolves
\* without an error and leaves the table without a row for the pair, and a
\* getModuleProgress that resolves next for the pair returns null.
C30_UpdateNeverCreatesRow ==
    [][LET updates == {"updateTrainingProgress", "completeTrainingModule"}
       IN  /\ \A c \in svcCalls :
                 (/\ c.fn \in updates
                  /\ c \notin svcCalls'
                  /\ svcLast'.op = c.fn
                  /\ svcLast'.outcome = "ok"
                  /\ ProgressMatch(progressTbl, c.profileId, c.target) = {})
                     => /\ svcLast'.thrown = SvcNoError
                        /\ ProgressMatch(progressTbl', c.profileId, c.target) = {}
           /\ (/\ svcLast.op \in updates
               /\ svcLast.outcome = "ok"
               /\ ProgressMatch(progressTbl, svcLast.profileId, svcLast.target) = {}
               /\ svcLast'.op = "getModuleProgress"
               /\ svcLast'.profileId = svcLast.profileId
               /\ svcLast'.target = svcLast.target
               /\ svcLast'.outcome = "returns")
                  => svcLast'.returned = Null]_vars

\* completeTrainingModule has resolved for a module that was never started
C30_Witness ==
    /\ svcLast.op = "completeTrainingModule"
    /\ svcLast.outcome = "ok"
    /\ svcLast.thrown = SvcNoError
    /\ svcLast.payload["completion_percentage"] = 100
    /\ ProgressMatch(progressTbl, "pA", "mod1") = {}

(***************************************************************************)
(* Claims about the activity record, under SpecActivity                    *)
(***************************************************************************)

\* C19: the recent_activity table holds at most one row per profile and
\* resource, and a trackResourceAccess call for a pair that has a row ends
\* (unless the storage fails) with that one row carrying the time of the
\* access.
C19_OneActivityRowPerResource ==
    /\ \A p \in ActivityProfiles, r \in Resources :
          Cardinality(ActivityRows(activityTbl, svcRevision, p, r.name)) <= 1
    /\ (/\ svcLast.op = "trackResourceAccess"
        /\ svcLast.outcome # "error"
        /\ svcLast.before # {}) =>
          \E r \in activityTbl :
             /\ ActivityRows(activityTbl, svcRevision, svcLast.profileId,
                             svcLast.target) = {r}
             /\ r.accessed_at = ToISOString(svcLast.arg)

(***************************************************************************)
(* Claims about getRecentActivity, under SpecRecent                        *)
(***************************************************************************)

\* C23: getRecentActivity(profileId) returns at most 10 records, each built
\* from a row of profileId and no row twice, ordered by access time
\* descending; a row of the profile is left out only when 10 are returned,
\* and no row left out is newer than a returned one.
C23_TenMostRecent ==
    (svcLast.op = "getRecentActivity" /\ svcLast.outcome = "ok") =>
        LET res  == svcLast.returned
            mine == {r \in activityTbl :
                        r[ActivityProfileColumn(svcRevision)] = svcLast.profileId}
            out  == {r \in mine : \A i \in 1..Len(res) : res[i].id # r.id}
        IN  /\ Len(res) <= 10
            /\ \A i \in 1..Len(res) :
                  \E r \in mine : /\ res[i].id = r.id
                                  /\ res[i].resourceName = r.resource_name
                                  /\ res[i].accessedAt = r.accessed_at
            /\ \A i, j \in 1..Len(res) :
                  i < j => /\ res[i].id # res[j].id
                           /\ AccessRank(res[i].accessedAt) >=
                                 AccessRank(res[j].accessedAt)
            /\ out # {} => Len(res) = 10
            /\ \A r \in out : \A i \in 1..Len(res) :
                  AccessRank(r.accessed_at) <= AccessRank(res[i].accessedAt)

\* eleven rows of pA are stored beside a row of pB, and ten were returned
C23_Witness ==
    /\ svcLast.op = "getRecentActivity"
    /\ svcLast.outcome = "ok"
    /\ svcLast.profileId = "pA"
    /\ Len(svcLast.returned) = 10
    /\ Cardinality(activityTbl) = 12

(***************************************************************************)
(* Claims about the add-profile form, under SpecForm                       *)
(***************************************************************************)

\* The two-digit texts of the numbers lo..hi, and the four-digit texts of
\* the years 1900..2099
TwoDigitTexts(lo, hi) ==
    {<<ToString(n \div 10), ToString(n % 10)>> : n \in lo..hi}
YearTextsValid ==
    {<<c[1], c[2], ToString(n \div 10), ToString(n % 10)>> :
        c \in {<<"1", "9">>, <<"2", "0">>}, n \in 0..99}

\* A date-of-birth field is provided and violates its pattern
DobViolates(data) ==
    \/ data.dobMonth # <<>> /\ data.dobMonth \notin TwoDigitTexts(1, 12)
    \/ data.dobDay # <<>> /\ data.dobDay \notin TwoDigitTexts(1, 31)
    \/ data.dobYear # <<>> /\ data.dobYear \notin YearTextsValid

\* All three date-of-birth fields match, and role and names are present
DobMatchesAndRequiredPresent(data) ==
    /\ data.dobMonth \in TwoDigitTexts(1, 12)
    /\ data.dobDay \in TwoDigitTexts(1, 31)
    /\ data.dobYear \in YearTextsValid
    /\ data.roleType \in ROLE_OPTIONS
    /\ data.firstName # <<>>
    /\ data.lastName # <<>>

\* The submission issued the insert of the values into member_profiles
InsertIssued(data) ==
    /\ formLast'.issued
    /\ \E c \in profileInserts' \ profileInserts :
          /\ c.kind = "insert"
          /\ c.payload.dob_month = TextOf(data.dobMonth)
          /\ c.payload.dob_day = TextOf(data.dobDay)
          /\ c.payload.dob_year = TextOf(data.dobYear)
          /\ c.payload.first_name = TextOf(data.firstName)

\* The submission was rejected and no call was issued
RejectedBeforeNetwork ==
    /\ formLast'.op = "rejected"
    /\ ~formLast'.issued
    /\ profileInserts' = profileInserts

\* C21 as stated: creating a profile through the form, a date-of-birth field
\* that is provided and violates its pattern (month 01-12, day 01-31, year
\* 19xx or 20xx) has the submission rejected before any network call; when
\* all three match and role and names are present, the insert is issued.
C21_AsStated ==
    [][(formLast.op = "none" /\ formLast'.op # "none"
           /\ formLast'.profileId = NullValue)
          => LET data == formLast'.values
             IN  /\ DobViolates(data) => RejectedBeforeNetwork
                 /\ DobMatchesAndRequiredPresent(data) => InsertIssued(data)]_vars

\* C21, amended: a date-of-birth field that is provided and violates its
\* pattern has the submission rejected before any network call; when all
\* three match, role and names are present, phone number and e-mail are
\* empty or match their own patterns, and an account is signed in, the insert
\* is issued.
C21_ValidDobIsInserted ==
    [][(formLast.op = "none" /\ formLast'.op # "none"
           /\ formLast'.profileId = NullValue)
          => LET data == formLast'.values
             IN  /\ DobViolates(data) => RejectedBeforeNetwork
                 /\ (/\ DobMatchesAndRequiredPresent(data)
                     /\ Refined(data.phoneNumber, MatchesPhone(data.phoneNumber))
                     /\ Refined(data.profileEmail, MatchesEmail(data.profileEmail))
                     /\ auth.account # Null)
                        => InsertIssued(data)]_vars

\* the form was submitted with a matching date of birth and the insert was
\* issued
C21_Witness ==
    /\ formLast.op = "submitted"
    /\ formLast.profileId = NullValue
    /\ formLast.values.dobMonth = <<"1", "2">>
    /\ formLast.values.dobDay = <<"3", "1">>
    /\ formLast.values.dobYear = <<"1", "9", "9", "9">>
    /\ formLast.issued
    /\ \E c \in profileInserts : c.kind = "insert" /\ c.payload.dob_month = "12"

(***************************************************************************)
(* Claims about the service's bookmark functions, under SpecCatalog        *)
(***************************************************************************)

\* C20: in the revision that resolves a path through the storage catalog,
\* for a path without a catalog entry isBookmarked returns false and throws
\* nothing, while addBookmark and removeBookmark throw and leave the
\* bookmarks table as it was.
C20_MissingCatalogEntry ==
    (/\ svcRevision = "rev2"
     /\ svcLast.op \in {"addBookmark", "removeBookmark", "isBookmarked"}
     /\ \A r \in CatalogRows : r.file_path # svcLast.target) =>
        IF svcLast.op = "isBookmarked"
        THEN /\ svcLast.outcome = "returns"
             /\ svcLast.flag = FALSE
             /\ svcLast.thrown = SvcNoError
        ELSE /\ svcLast.outcome = "throws"
             /\ svcLast.thrown # SvcNoError
             /\ bookmarksTbl = svcLast.before
             /\ \A row \in bookmarksTbl : row[1] = svcLast.profileId => row[2] = "f1"

\* addBookmark has thrown for b.pdf, which the catalog does not hold, while
\* the profile had a bookmark on a.pdf
C20_Witness ==
    /\ svcRevision = "rev2"
    /\ svcLast.op = "addBookmark"
    /\ svcLast.target = "b.pdf"
    /\ svcLast.outcome = "throws"
    /\ <<"pA", "f1">> \in bookmarksTbl

\* The client stores, built against the schema of the service's rev2 (the
\* bookmark store writes its columns).
\* No form was submitted, refreshCurrentProfile and handleDelete were not
\* called, and the Dashboard is not mounted yet.
UiInit ==
    /\ profileInserts = {}
    /\ formLast = FormNoStep
    /\ refreshes = {}
    /\ deletes = {}
    /\ dashboard = DashboardInit
    /\ dashLoads = {}
    /\ profileLoads = {}
    /\ profileLoading = FALSE

Init ==
    /\ BmInit /\ AuthProfileInit /\ AcctInit /\ SvcInit /\ UiInit
    /\ svcRevision = "rev2"

\* The service in either revision, called by a client built from part_002.
ServiceInit ==
    /\ BmInit /\ AuthProfileInit /\ AcctInit /\ SvcInit /\ UiInit
    /\ revision = "part_002"

\* The table holds any of the rows it can hold, in either revision.
RecentInit ==
    /\ BmInit /\ AuthProfileInit /\ AcctInit /\ UiInit
    /\ revision = "part_002"
    /\ svcRevision \in ServiceRevisions
    /\ activityTbl \in {{StoredAccess(svcRevision, i) : i \in ids} :
                           ids \in SUBSET (1..MaxStoredAccesses)}
    /\ progressTbl = {}
    /\ svcCalls = {}
    /\ svcLast = SvcNoStep
    /\ now = 1

\* Account u1 is signed in and its profiles are loaded.
SignedInInit ==
    LET roster == MapRows(ActiveProfilesQuery(ProfileRows, "u1"))
    IN  /\ BmInit /\ AcctInit /\ SvcInit /\ UiInit /\ svcRevision = "rev2"
        /\ provSession = "u1"
        /\ accountsTbl = AccountRows
        /\ profilesTbl = ProfileRows
        /\ revision = "part_002"
        /\ auth = AccountFoundState("u1", CHOOSE r \in AccountRows : r.id = "u1")
        /\ handlers = {}
        /\ logoutPending = FALSE
        /\ nEvents = 1
        /\ lastEvent = "u1"
        /\ currentProfile = roster[1]
        /\ profiles = roster
        /\ sessionCache = SaveCurrentProfile(roster[1], NoItem)
        /\ loads = {}
        /\ last = NoStep

Spec == Init /\ [][Next]_vars

SpecBookmark == Init /\ [][BmNext]_vars

SpecSession == Init /\ [][SessionNext]_vars

SpecAccount == Init /\ [][AcctNext]_vars

SpecPayload == SignedInInit /\ [][PayloadNext]_vars
SpecProfile == SignedInInit /\ [][ProfileNext]_vars
SpecDashboard == SignedInInit /\ [][DashboardNext]_vars
SpecForm == SignedInInit /\ [][FormNext]_vars

SpecTraining == ServiceInit /\ [][TrainingNext]_vars

SpecActivity == ServiceInit /\ [][ActivityNext]_vars

SpecCatalog == ServiceInit /\ [][CatalogNext]_vars
SpecRecent == RecentInit /\ [][RecentNext]_vars

=============================================================================
